---- MODULE Spec2Model ----
(***************************************************************************)
(* Tenant routing layer of echo-core: the Infrastructure Registry          *)
(* (onyx/db/tenant_registry.py), the Context Store                         *)
(* (shared_configs/contextvars.py), the Tenant Resolver middleware         *)
(* (ee/onyx/server/middleware/tenant_tracking.py) and the search client    *)
(* pool (onyx/document_index/vespa/tenant_vespa_client.py), with the       *)
(* notification hooks of the indexing pipeline                             *)
(* (onyx/connectors/poseidon/hooks.py).                                    *)
(*                                                                         *)
(* Eight specifications share the module:                                  *)
(*   SpecRegistry  sequential lookups / invalidations against a changing   *)
(*                 lookup store and a clock;                               *)
(*   SpecContext   two tasks, each running in its own contextvars context; *)
(*   SpecResolver  one request at a time through the middleware, the       *)
(*                 Registry and the Context Store;                         *)
(*   SpecPool      two threads calling the client pool under its lock;     *)
(*   SpecHooks     two threads calling the rate-limited hooks;             *)
(*   SpecSingleton two threads constructing the two singleton classes;     *)
(*   SpecRace      two threads calling the Registry step by step while the *)
(*                 lookup store changes;                                   *)
(*   SpecLocks     two threads calling the Registry and the pool.          *)
(***************************************************************************)
EXTENDS Integers, Sequences, FiniteSets, TLC

VARIABLES
    cache,      \* TenantRegistry._cache: organization id -> CachedTenantEntry
    store,      \* tenant_infrastructure table: organization id -> row or NoRow
    now,        \* time.time()
    ticks,      \* number of clock advances so far (bounds the clock)
    calls,      \* history: the last two get_tenant_infrastructure calls for Watched
    invalidated, \* history: invalidate_cache touched Watched since its last call
    MULTI_TENANT,           \* shared_configs.configs.MULTI_TENANT
    TENANT_ISOLATION_MODE,  \* os.getenv("TENANT_ISOLATION_MODE", "schema")
    ctx,        \* per task, the values of the five tenant ContextVars in its Context
    stack,      \* per task, the set_tenant_context calls not yet reset: arguments and tokens
    undone,     \* history: per task, the call its last operation reset, if that was a reset
    req,        \* the request the middleware is handling (the signals it carries)
    pc,         \* where that request is: idle, call_next, done, handler_raised, rejected
    resolved,   \* what _get_tenant_info_from_request did for it
    seen,       \* what the downstream handler read through the getters
    clients,    \* TenantVespaClientPool._clients, in insertion order
    client_lock, \* the thread holding _client_lock, or None
    nextClient, \* identity of the next httpx.Client object constructed
    closed,     \* the client objects close() was called on
    removed,    \* the client objects taken out of the pool so far
    threads,    \* per thread, the pool call it is making and what it got
    ops,        \* history: the last pool operation that ran under the lock
    POSEIDON_WEBHOOK_ENABLED, \* os.getenv("POSEIDON_WEBHOOK_ENABLED", "true")
    events_this_minute, \* hooks._events_this_minute
    notifiers,  \* per thread, the notify_* call it is making
    submitted,  \* history: when each event was handed to the executor, and when allowed
    notifyCalls, \* number of notify_* calls made so far (bounds the run)
    instance,   \* per singleton class, cls._instance: an object of objects, or NoObject
    cls_lock,   \* per singleton class, the threads holding cls._lock
    objects,    \* per singleton class, the objects __new__ made: _initialized and the map
    builders,   \* per thread, the construction it is in and the instance it holds
    replaced,   \* history: per class, the entries lost when a map was replaced
    cache_lock, \* the threads holding TenantRegistry._cache_lock
    callers,    \* per thread, the Registry call it is making
    inv_started, \* history: number of invalidate_cache calls begun so far
    inv_returned, \* history: the latest-begun invalidate_cache call that has returned
    entry_epoch \* history: per organization, inv_started when its cached record was read

regVars == <<cache, store, now, ticks, calls, invalidated>>

cfgVars == <<MULTI_TENANT, TENANT_ISOLATION_MODE>>

ctxVars == <<ctx, stack, undone>>

resVars == <<req, pc, resolved, seen>>

poolVars == <<clients, client_lock, nextClient, closed, removed, threads, ops>>

hookVars == <<POSEIDON_WEBHOOK_ENABLED, events_this_minute, notifiers, submitted, notifyCalls>>

\* The variables of the specifications of concurrent use.
singVars == <<instance, cls_lock, objects, builders, replaced>>

raceVars == <<cache_lock, callers, inv_started, inv_returned, entry_epoch>>

concVars == <<hookVars, singVars, raceVars>>

vars == <<regVars, cfgVars, concVars, ctxVars, resVars, poolVars>>

----------------------------------------------------------------------------
(* Bounds *)

MaxTicks == 2

\* Depth of nested set_tenant_context calls per task.
MaxNest == 2

\* notify_* calls in one run.
MaxNotifies == 3

\* Clock advances in one run of the hooks.
MaxHookTicks == 2

\* invalidate_cache calls in one run of the concurrent Registry.
MaxInvalidations == 1

----------------------------------------------------------------------------
(* Values *)

None == "None"

Orgs == {"org_7", "acct_7"}

\* The organization whose row changes and whose calls the history records;
\* the other one keeps an active row and is looked up and invalidated beside it.
Watched == "acct_7"

Statuses == {"provisioning", "active", "suspended"}

TENANT_CACHE_TTL_SECONDS == 300

\* Clock advances: exactly the TTL (an entry of that age is still served) and
\* one second more (expired).
TickSteps == {TENANT_CACHE_TTL_SECONDS, TENANT_CACHE_TTL_SECONDS + 1}

\* Restriction of a function to its domain without k (del d[k]).
Remove(f, k) == [x \in DOMAIN f \ {k} |-> f[x]]

\* Host naming of the rows the lookup store may hold for an organization.
HostSuffix(org) == IF org = "acct_7" THEN "7.internal" ELSE org \o ".internal"

\* A row of tenant_infrastructure for org with the given status.
StoreRow(org, status) ==
    [organization_id |-> org,
     database_host   |-> "db-" \o HostSuffix(org),
     database_port   |-> 5432,
     database_name   |-> "oceanic_" \o org,
     vespa_host      |-> "vespa-" \o HostSuffix(org),
     vespa_port      |-> 8081,
     status          |-> status]

StoreStates(org) == {[present |-> FALSE]} \cup
                    {[present |-> TRUE, row |-> StoreRow(org, s)] : s \in Statuses}

----------------------------------------------------------------------------
(* onyx/db/tenant_registry.py *)

\* TenantInfrastructure(...) as built from a result row.
TenantInfrastructure(row) ==
    [organization_id |-> row.organization_id,
     database_host   |-> row.database_host,
     database_port   |-> row.database_port,
     database_name   |-> row.database_name,
     vespa_host      |-> row.vespa_host,
     vespa_port      |-> row.vespa_port,
     status          |-> row.status]

database_url(infra) ==
    "postgresql://" \o infra.database_host \o ":" \o ToString(infra.database_port)
        \o "/" \o infra.database_name

vespa_url(infra) ==
    "http://" \o infra.vespa_host \o ":" \o ToString(infra.vespa_port)

is_suspended(infra) == infra.status = "suspended"

is_provisioning(infra) == infra.status = "provisioning"

\* Mutant of is_expired: the subtraction reversed, so that no entry ever expires.
is_expired_reversed(entry, t, ttl_seconds) == (entry.cached_at - t) > ttl_seconds

is_expired(entry, t, ttl_seconds) == (t - entry.cached_at) > ttl_seconds

Return(v) == [kind |-> "return", value |-> v]

Raise(e, org) == [kind |-> "raise", error |-> e, tenant_id |-> org]

\* _get_from_cache: [found, value, cache'] ; an expired entry is deleted.
GetFromCache(c, organization_id, t) ==
    IF organization_id \notin DOMAIN c
    THEN [found |-> FALSE, cache |-> c]
    ELSE IF is_expired(c[organization_id], t, TENANT_CACHE_TTL_SECONDS)
         THEN [found |-> FALSE, cache |-> Remove(c, organization_id)]
         ELSE [found |-> TRUE, value |-> c[organization_id].infrastructure, cache |-> c]

\* Mutant of AddToCache: the entry is never stored.
AddToCache_dropped(c, organization_id, infrastructure, t) == c

\* _add_to_cache
AddToCache(c, organization_id, infrastructure, t) ==
    (organization_id :> [infrastructure |-> infrastructure, cached_at |-> t]) @@ c

\* Mutant of QueryTenantInfrastructure: the status check is missing, a suspended
\* record is returned like any other.
QueryTenantInfrastructure_nocheck(st, organization_id, down) ==
    IF down
    THEN Raise("Exception", organization_id)
    ELSE IF ~st[organization_id].present
         THEN Raise("TenantNotProvisionedError", organization_id)
         ELSE Return(TenantInfrastructure(st[organization_id].row))

\* Mutant of QueryTenantInfrastructure: a record that is still provisioning is
\* refused as not provisioned.
QueryTenantInfrastructure_strict(st, organization_id, down) ==
    IF down
    THEN Raise("Exception", organization_id)
    ELSE IF ~st[organization_id].present
         THEN Raise("TenantNotProvisionedError", organization_id)
         ELSE LET infrastructure == TenantInfrastructure(st[organization_id].row)
              IN  IF is_suspended(infrastructure)
                  THEN Raise("TenantSuspendedError", organization_id)
                  ELSE IF is_provisioning(infrastructure)
                       THEN Raise("TenantNotProvisionedError", organization_id)
                       ELSE Return(infrastructure)

\* _query_tenant_infrastructure; down: platform_session.execute raises.
QueryTenantInfrastructure(st, organization_id, down) ==
    IF down
    THEN Raise("Exception", organization_id)
    ELSE IF ~st[organization_id].present
         THEN Raise("TenantNotProvisionedError", organization_id)
         ELSE LET infrastructure == TenantInfrastructure(st[organization_id].row)
              IN  IF is_suspended(infrastructure)
                  THEN Raise("TenantSuspendedError", organization_id)
                  ELSE Return(infrastructure)

\* Mutant of GetTenantInfrastructure: bypass_cache is ignored, the cache is
\* always consulted first.
GetTenantInfrastructure_nobypass(c, st, organization_id, bypass_cache, t, down) ==
    LET cached == GetFromCache(c, organization_id, t)
    IN  IF cached.found
        THEN [cache |-> cached.cache, queried |-> FALSE, result |-> Return(cached.value)]
        ELSE LET q == QueryTenantInfrastructure(st, organization_id, down)
             IN  IF q.kind = "return"
                 THEN [cache   |-> AddToCache(cached.cache, organization_id, q.value, t),
                       queried |-> TRUE,
                       result  |-> q]
                 ELSE [cache |-> cached.cache, queried |-> TRUE, result |-> q]

\* TenantRegistry.get_tenant_infrastructure: [cache', queried, result]
GetTenantInfrastructure(c, st, organization_id, bypass_cache, t, down) ==
    LET cached == IF bypass_cache
                  THEN [found |-> FALSE, cache |-> c]
                  ELSE GetFromCache(c, organization_id, t)
    IN  IF cached.found
        THEN [cache |-> cached.cache, queried |-> FALSE, result |-> Return(cached.value)]
        ELSE LET q == QueryTenantInfrastructure(st, organization_id, down)
             IN  IF q.kind = "return"
                 THEN [cache   |-> AddToCache(cached.cache, organization_id, q.value, t),
                       queried |-> TRUE,
                       result  |-> q]
                 ELSE [cache |-> cached.cache, queried |-> TRUE, result |-> q]

\* Mutant of InvalidateCache: the whole cache is cleared whatever the argument.
InvalidateCache_all(c, organization_id) == << >>

\* TenantRegistry.invalidate_cache
InvalidateCache(c, organization_id) ==
    IF organization_id = None
    THEN << >>
    ELSE IF organization_id \in DOMAIN c
         THEN Remove(c, organization_id)
         ELSE c

----------------------------------------------------------------------------
(* shared_configs/contextvars.py *)

POSTGRES_DEFAULT_SCHEMA == "public"

Tasks == {1, 2}

Fields == {"tenant_id", "org_id", "db_url", "vespa_url", "isolation_mode"}

\* The ContextVar defaults: what get() returns in a Context where the variable
\* was never set.
ContextDefaults(multi_tenant) ==
    [tenant_id      |-> IF multi_tenant THEN None ELSE POSTGRES_DEFAULT_SCHEMA,
     org_id         |-> None,
     db_url         |-> None,
     vespa_url      |-> None,
     isolation_mode |-> "schema"]

\* The keyword arguments of one set_tenant_context call.
Args(tenant, org, db, vespa, mode) ==
    [tenant_id      |-> tenant,
     org_id         |-> org,
     db_url         |-> db,
     vespa_url      |-> vespa,
     isolation_mode |-> mode]

\* The variables a set_tenant_context call sets: the arguments that are not
\* None, and always the isolation mode.
FieldsSet(args) == {f \in Fields : f = "isolation_mode" \/ args[f] # None}

\* Mutant of SetTenantContext: the values live in one module-level slot shared
\* by every task instead of in the caller's Context.
SetTenantContext_shared(cs, task, args) ==
    [ctx    |-> [t \in DOMAIN cs |->
                    [f \in Fields |-> IF f \in FieldsSet(args) THEN args[f] ELSE cs[t][f]]],
     tokens |-> [f \in FieldsSet(args) |-> cs[task][f]]]

\* Mutant of SetTenantContext: only the tenant id is set.
SetTenantContext_tenantonly(cs, task, args) ==
    [ctx    |-> [cs EXCEPT ![task] =
                    [f \in Fields |-> IF f = "tenant_id" /\ args[f] # None
                                      THEN args[f]
                                      ELSE cs[task][f]]],
     tokens |-> [f \in FieldsSet(args) \cap {"tenant_id"} |-> cs[task][f]]]

\* set_tenant_context run by task: ContextVar.set writes the Context of the
\* running task only; each token remembers the value it replaced.
SetTenantContext(cs, task, args) ==
    [ctx    |-> [cs EXCEPT ![task] =
                    [f \in Fields |-> IF f \in FieldsSet(args) THEN args[f] ELSE cs[task][f]]],
     tokens |-> [f \in FieldsSet(args) |-> cs[task][f]]]

\* Mutant of ResetTenantContext: the isolation mode is left as the call set it.
ResetTenantContext_nomode(cs, task, tokens) ==
    [cs EXCEPT ![task] =
        [f \in Fields |-> IF f \in DOMAIN tokens \ {"isolation_mode"}
                          THEN tokens[f]
                          ELSE cs[task][f]]]

\* reset_tenant_context run by task.
ResetTenantContext(cs, task, tokens) ==
    [cs EXCEPT ![task] =
        [f \in Fields |-> IF f \in DOMAIN tokens THEN tokens[f] ELSE cs[task][f]]]

\* Mutant of get_current_tenant_id: an unset tenant id is silently defaulted.
get_current_tenant_id_defaulted(cx, multi_tenant) ==
    IF cx.tenant_id = None
    THEN Return(POSTGRES_DEFAULT_SCHEMA)
    ELSE Return(cx.tenant_id)

\* get_current_tenant_id
get_current_tenant_id(cx, multi_tenant) ==
    IF cx.tenant_id = None
    THEN IF ~multi_tenant
         THEN Return(POSTGRES_DEFAULT_SCHEMA)
         ELSE [kind |-> "raise", error |-> "RuntimeError"]
    ELSE Return(cx.tenant_id)

get_current_org_id(cx) == cx.org_id

get_current_db_url(cx) == cx.db_url

get_current_vespa_url(cx) == cx.vespa_url

get_tenant_isolation_mode(cx) == cx.isolation_mode

is_full_database_isolation(cx) == get_tenant_isolation_mode(cx) = "database"

\* What a reader of the five context variables gets in a context.
Getters(cx) ==
    [tenant_id      |-> cx.tenant_id,
     org_id         |-> get_current_org_id(cx),
     db_url         |-> get_current_db_url(cx),
     vespa_url      |-> get_current_vespa_url(cx),
     isolation_mode |-> get_tenant_isolation_mode(cx)]

----------------------------------------------------------------------------
(* ee/onyx/server/middleware/tenant_tracking.py *)

\* Identifiers that pass onyx.db.engine.sql_engine.is_valid_schema_name
\* (alphanumeric plus '_' and '-'), and one that does not (it holds a dot).
ValidNames == Orgs \cup {POSTGRES_DEFAULT_SCHEMA}

Malformed == "org.7"

is_valid_schema_name(name) == name \in ValidNames

\* What the resolver hands back: a (tenant_id, org_id, db_url, vespa_url) tuple
\* or an HTTPException; with the Registry cache it leaves behind and the
\* organizations it looked up, in order.
Resolved(tenant, org, db, vespa, step, c, lookups) ==
    [kind |-> "return", status |-> 200, tenant_id |-> tenant, org_id |-> org,
     db_url |-> db, vespa_url |-> vespa, step |-> step, cache |-> c, lookups |-> lookups]

HTTPException(status_code, step, c, lookups) ==
    [kind |-> "raise", status |-> status_code, tenant_id |-> None, org_id |-> None,
     db_url |-> None, vespa_url |-> None, step |-> step, cache |-> c, lookups |-> lookups]

\* _lookup_tenant_infrastructure: the locators of org_id, (None, None) when it
\* is not provisioned or the lookup fails, HTTP 403 when it is suspended.
\* outcome names the branch taken.
LookupTenantInfrastructure(org_id, c, st, t, down) ==
    LET g == GetTenantInfrastructure(c, st, org_id, FALSE, t, down)
    IN  IF g.result.kind = "return"
        THEN [kind |-> "return", status |-> 200, cache |-> g.cache, outcome |-> "found",
              db_url    |-> database_url(g.result.value),
              vespa_url |-> vespa_url(g.result.value)]
        ELSE IF g.result.error = "TenantNotProvisionedError"
             THEN [kind |-> "return", status |-> 200, cache |-> g.cache,
                   outcome |-> "not_provisioned", db_url |-> None, vespa_url |-> None]
             ELSE IF g.result.error = "TenantSuspendedError"
                  THEN [kind |-> "raise", status |-> 403, cache |-> g.cache,
                        outcome |-> "suspended", db_url |-> None, vespa_url |-> None]
                  ELSE [kind |-> "return", status |-> 200, cache |-> g.cache,
                        outcome |-> "unavailable", db_url |-> None, vespa_url |-> None]

\* The record of one Registry call of the resolver.
Looked(org_id, l) == <<[org |-> org_id, outcome |-> l.outcome]>>

\* Mutant of ResolveDirect: the infrastructure lookup is made whatever the
\* isolation mode.
ResolveDirect_always(id, step, mode, c, st, t, down) ==
    LET l == LookupTenantInfrastructure(id, c, st, t, down)
    IN  IF l.kind = "raise"
        THEN HTTPException(l.status, step, l.cache, Looked(id, l))
        ELSE Resolved(id, id, l.db_url, l.vespa_url, step, l.cache, Looked(id, l))

\* Lines 106-115 and 120-128: the identity comes from the trusted header or
\* from the credential; outside the try block, so a 403 propagates.
ResolveDirect(id, step, mode, c, st, t, down) ==
    IF mode = "database"
    THEN LET l == LookupTenantInfrastructure(id, c, st, t, down)
         IN  IF l.kind = "raise"
             THEN HTTPException(l.status, step, l.cache, Looked(id, l))
             ELSE Resolved(id, id, l.db_url, l.vespa_url, step, l.cache, Looked(id, l))
    ELSE Resolved(id, id, None, None, step, c, << >>)

\* How the try block (lines 130-199) is left: the value it returns or the
\* exception it raises (ret), and the locals the finally block then reads.
TryExit(ret, tenant, db, vespa) ==
    [ret |-> ret, tenant_id |-> tenant, db_url |-> db, vespa_url |-> vespa]

\* Mutant of ResolvePayload: the infrastructure lookup is made whatever the
\* isolation mode.
ResolvePayload_nomode(payload, step, swallow, mode, c, st, t, down) ==
    LET tenant == IF payload.tenant_id = None
                  THEN POSTGRES_DEFAULT_SCHEMA
                  ELSE payload.tenant_id
        org    == IF payload.organization_id # None
                  THEN payload.organization_id
                  ELSE tenant
        fallthrough(cc, looked) ==
            Resolved(POSTGRES_DEFAULT_SCHEMA, None, None, None, "default", cc, looked)
    IN  IF ~is_valid_schema_name(tenant)
        THEN TryExit(IF swallow
                     THEN fallthrough(c, << >>)
                     ELSE HTTPException(400, step, c, << >>),
                     tenant, None, None)
        ELSE IF TRUE
             THEN LET l == LookupTenantInfrastructure(org, c, st, t, down)
                  IN  IF l.kind = "raise"
                      THEN TryExit(IF swallow
                                   THEN fallthrough(l.cache, Looked(org, l))
                                   ELSE HTTPException(l.status, step, l.cache,
                                                      Looked(org, l)),
                                   tenant, None, None)
                      ELSE TryExit(Resolved(tenant, org, l.db_url, l.vespa_url, step,
                                            l.cache, Looked(org, l)),
                                   tenant, l.db_url, l.vespa_url)
             ELSE TryExit(Resolved(tenant, org, None, None, step, c, << >>),
                          tenant, None, None)

\* Lines 134-156 and 165-180: the identity comes from a decoded payload (the
\* session token or the anonymous cookie).  swallow: the anonymous branch
\* catches every exception (lines 182-184) and falls to the default return.
ResolvePayload(payload, step, swallow, mode, c, st, t, down) ==
    LET tenant == IF payload.tenant_id = None
                  THEN POSTGRES_DEFAULT_SCHEMA
                  ELSE payload.tenant_id
        org    == IF payload.organization_id # None
                  THEN payload.organization_id
                  ELSE tenant
        fallthrough(cc, looked) ==
            Resolved(POSTGRES_DEFAULT_SCHEMA, None, None, None, "default", cc, looked)
    IN  IF ~is_valid_schema_name(tenant)
        THEN TryExit(IF swallow
                     THEN fallthrough(c, << >>)
                     ELSE HTTPException(400, step, c, << >>),
                     tenant, None, None)
        ELSE IF mode = "database"
             THEN LET l == LookupTenantInfrastructure(org, c, st, t, down)
                  IN  IF l.kind = "raise"
                      THEN TryExit(IF swallow
                                   THEN fallthrough(l.cache, Looked(org, l))
                                   ELSE HTTPException(l.status, step, l.cache,
                                                      Looked(org, l)),
                                   tenant, None, None)
                      ELSE TryExit(Resolved(tenant, org, l.db_url, l.vespa_url, step,
                                            l.cache, Looked(org, l)),
                                   tenant, l.db_url, l.vespa_url)
             ELSE TryExit(Resolved(tenant, org, None, None, step, c, << >>),
                          tenant, None, None)

\* The try block, lines 130-199.
TryBlock(rq, mode, c, st, t) ==
    IF rq.token.state = "error"
    THEN TryExit(HTTPException(500, "token", c, << >>), POSTGRES_DEFAULT_SCHEMA, None, None)
    ELSE IF rq.token.state = "data"
         THEN ResolvePayload(rq.token, "token", FALSE, mode, c, st, t, rq.down)
         ELSE IF rq.anon.state = "undecodable"
              THEN TryExit(Resolved(POSTGRES_DEFAULT_SCHEMA, None, None, None, "default",
                                    c, << >>),
                           POSTGRES_DEFAULT_SCHEMA, None, None)
              ELSE IF rq.anon.state = "data"
                   THEN ResolvePayload(rq.anon, "anonymous", TRUE, mode, c, st, t, rq.down)
                   ELSE TryExit(Resolved(POSTGRES_DEFAULT_SCHEMA, None, None, None,
                                         "default", c, << >>),
                                POSTGRES_DEFAULT_SCHEMA, None, None)

\* Mutant of Finally: the finally block returns nothing, so the value or the
\* exception of the try block stands.
Finally_passthrough(exit, cookie) == exit.ret

\* The finally block, lines 201-209: it always returns, which discards both
\* the value the try block was returning and any exception it was raising.
Finally(exit, cookie) ==
    IF /\ exit.tenant_id # None
       /\ exit.tenant_id # POSTGRES_DEFAULT_SCHEMA
       /\ cookie # None
       /\ is_valid_schema_name(cookie)
    THEN Resolved(cookie, cookie, exit.db_url, exit.vespa_url, "override",
                  exit.ret.cache, exit.ret.lookups)
    ELSE Resolved(POSTGRES_DEFAULT_SCHEMA, None, None, None, "default",
                  exit.ret.cache, exit.ret.lookups)

\* _get_tenant_info_from_request
GetTenantInfoFromRequest(rq, mode, c, st, t) ==
    IF rq.header # None /\ is_valid_schema_name(rq.header)
    THEN ResolveDirect(rq.header, "header", mode, c, st, t, rq.down)
    ELSE IF rq.auth # None
         THEN ResolveDirect(rq.auth, "credential", mode, c, st, t, rq.down)
         ELSE Finally(TryBlock(rq, mode, c, st, t), rq.cookie)

----------------------------------------------------------------------------
(* onyx/document_index/vespa/tenant_vespa_client.py *)

\* TenantVespaClientPool.MAX_CLIENTS: 50 in the source, scaled down.
MAX_CLIENTS == 2

HEALTH_CHECK_INTERVAL == 60

\* onyx.document_index.vespa_constants.VESPA_APP_CONTAINER_URL: the one
\* process-wide default endpoint.
VESPA_APP_CONTAINER_URL == "http://localhost:8081"

\* last_health_check of a client that was never checked (None), and of one
\* checked at time t.
NeverChecked == << >>

CheckedAt(t) == <<t>>

\* CachedVespaClient(client=..., vespa_url=..., created_at=now, last_access=now);
\* created_at, which only get_stats reads, is left out.
CachedVespaClient(client, url, t) ==
    [client            |-> client,
     vespa_url         |-> url,
     last_access       |-> t,
     last_health_check |-> NeverChecked,
     is_healthy        |-> TRUE]

\* The keys of _clients, and the position of a key in insertion order.
Urls(cs) == {cs[i].vespa_url : i \in 1..Len(cs)}

IndexOf(cs, url) == CHOOSE i \in 1..Len(cs) : cs[i].vespa_url = url

ClientIds(cs) == {cs[i].client : i \in 1..Len(cs)}

\* The pool as the operations below pass it along: _clients, and the client
\* objects closed and removed so far.
PoolOf(cs, cl, rm) == [clients |-> cs, closed |-> cl, removed |-> rm]

\* Mutant of ResolveVespaUrl: the context's locator is used whatever the
\* isolation mode.
ResolveVespaUrl_nomode(url, cx) ==
    IF url # None
    THEN url
    ELSE IF get_current_vespa_url(cx) # None
         THEN get_current_vespa_url(cx)
         ELSE VESPA_APP_CONTAINER_URL

\* _resolve_vespa_url, read in the context cx of the calling thread.
ResolveVespaUrl(url, cx) ==
    IF url # None
    THEN url
    ELSE IF is_full_database_isolation(cx) /\ get_current_vespa_url(cx) # None
         THEN get_current_vespa_url(cx)
         ELSE VESPA_APP_CONTAINER_URL

\* What get_client hands back: a client object, or the exception of a failed
\* construction.
NoClient == 0

ClientReturned(client) == [kind |-> "return", client |-> client]

ClientCreationError == [kind |-> "raise", client |-> NoClient]

\* Mutant of CreateClient: a failed construction is swallowed and no client
\* is handed back.
CreateClient_swallowed(new, create_ok) ==
    IF create_ok THEN ClientReturned(new) ELSE ClientReturned(NoClient)

\* _create_client: httpx.Client(...) constructs the object new, or raises.
CreateClient(new, create_ok) ==
    IF create_ok THEN ClientReturned(new) ELSE ClientCreationError

\* Mutant of ShouldHealthCheck: every hit runs a health check.
ShouldHealthCheck_always(cached, t) == TRUE

\* _should_health_check
ShouldHealthCheck(cached, t) ==
    \/ cached.last_health_check = NeverChecked
    \/ (t - cached.last_health_check[1]) > HEALTH_CHECK_INTERVAL

\* Mutant of PerformHealthCheck: the outcome of the check is ignored.
PerformHealthCheck_ignored(cached, health, t) ==
    [cached EXCEPT !.is_healthy = TRUE, !.last_health_check = CheckedAt(t)]

\* _perform_health_check.  health: "up", "down" (2xx with another status
\* code) or "error" (non-2xx, timeout, any exception).
PerformHealthCheck(cached, health, t) ==
    [cached EXCEPT !.is_healthy = (health = "up"), !.last_health_check = CheckedAt(t)]

\* Mutant of RemoveClient: the client is dropped without being closed.
RemoveClient_unclosed(p, url) ==
    IF url \in Urls(p.clients)
    THEN LET gone == p.clients[IndexOf(p.clients, url)]
             keep(e) == e.vespa_url # url
         IN  PoolOf(SelectSeq(p.clients, keep), p.closed, p.removed \cup {gone.client})
    ELSE p

\* _remove_client: pop the entry and call close() on its client (an exception
\* of close() is logged and ignored).
RemoveClient(p, url) ==
    IF url \in Urls(p.clients)
    THEN LET gone == p.clients[IndexOf(p.clients, url)]
             keep(e) == e.vespa_url # url
         IN  PoolOf(SelectSeq(p.clients, keep),
                    p.closed \cup {gone.client},
                    p.removed \cup {gone.client})
    ELSE p

\* Mutant of Oldest: the first key inserted, whatever its last access.
Oldest_first(cs) == cs[1].vespa_url

\* min(self._clients, key=last_access): the first key, in insertion order,
\* whose last_access is the smallest.
Oldest(cs) ==
    cs[CHOOSE i \in 1..Len(cs) :
          /\ \A j \in 1..Len(cs) : cs[i].last_access <= cs[j].last_access
          /\ \A j \in 1..(i - 1) : cs[j].last_access > cs[i].last_access].vespa_url

\* Mutant of EvictOldestClient: nothing is evicted.
EvictOldestClient_none(p) == p

\* _evict_oldest_client
EvictOldestClient(p) ==
    IF p.clients = << >> THEN p ELSE RemoveClient(p, Oldest(p.clients))

\* The body of get_client under the lock (lines 101-131), at clock reading t.
\* health is the outcome of the health check if one is due, create_ok whether
\* httpx.Client(...) succeeds if one is constructed, new the object it builds.
\* Beside the pool and the result: whether the key was pooled (hit), the
\* outcome of the health check ("none" when none ran), the clients the
\* eviction chose from (full; empty when none took place) and the keys it
\* evicted, and how the construction went ("none" when none was attempted).
GetClient(p, target_url, t, health, create_ok, new) ==
    LET hit     == target_url \in Urls(p.clients)
        i       == IndexOf(p.clients, target_url)
        touched == [p.clients[i] EXCEPT !.last_access = t]
        due     == hit /\ ShouldHealthCheck(touched, t)
        cached  == IF due THEN PerformHealthCheck(touched, health, t) ELSE touched
    IN  IF hit /\ cached.is_healthy
        THEN [pool    |-> [p EXCEPT !.clients[i] = cached],
              result  |-> ClientReturned(cached.client),
              hit     |-> TRUE, check |-> IF due THEN health ELSE "none",
              full    |-> << >>, evicted |-> {}, create |-> "none"]
        ELSE LET p2   == IF hit
                         THEN RemoveClient([p EXCEPT !.clients[i] = cached], target_url)
                         ELSE p
                 full == Len(p2.clients) >= MAX_CLIENTS
                 p3   == IF full THEN EvictOldestClient(p2) ELSE p2
                 c    == CreateClient(new, create_ok)
             IN  [pool    |-> IF c.kind = "return"
                              THEN [p3 EXCEPT !.clients =
                                       Append(@, CachedVespaClient(c.client, target_url, t))]
                              ELSE p3,
                  result  |-> c,
                  hit     |-> hit, check |-> IF due THEN health ELSE "none",
                  full    |-> IF full THEN p2.clients ELSE << >>,
                  evicted |-> Urls(p2.clients) \ Urls(p3.clients),
                  create  |-> IF create_ok THEN "ok" ELSE "failed"]

\* Mutant of InvalidateClient: the least recently used client is removed
\* instead of the one named.
InvalidateClient_oldest(p, url) == EvictOldestClient(p)

\* invalidate_client under the lock.
InvalidateClient(p, url) == RemoveClient(p, url)

\* close_all under the lock: every key of list(self._clients.keys()) in turn.
RECURSIVE CloseAll(_)
CloseAll(p) ==
    IF p.clients = << >> THEN p ELSE CloseAll(RemoveClient(p, p.clients[1].vespa_url))

\* A thread that is not calling the pool.
IdleThread ==
    [pc |-> "idle", op |-> "none", arg |-> None, url |-> None,
     result |-> ClientReturned(NoClient)]

\* The pool at rest: nothing pooled, lock free, no thread in a call.
PoolQuiet ==
    /\ clients = << >>
    /\ client_lock = {}
    /\ nextClient = 1
    /\ closed = {}
    /\ removed = {}
    /\ threads = [t \in Tasks |-> IdleThread]
    /\ ops = << >>

----------------------------------------------------------------------------
(* onyx/connectors/poseidon/hooks.py *)

\* POSEIDON_MAX_EVENTS_PER_MINUTE (environment, default 60).
POSEIDON_MAX_EVENTS_PER_MINUTE == 2

\* The span _check_rate_limit looks back over: minute_ago = now - 60.
RATE_WINDOW_SECONDS == 60

\* _check_rate_limit under _rate_limit_lock, for a caller that read the clock
\* as stamp before it took the lock: the entries not newer than a minute before
\* stamp are dropped; the call is refused when the rest is at the limit, else
\* stamp is recorded and the call allowed.
CheckRateLimit(events, stamp) ==
    LET minute_ago == stamp - RATE_WINDOW_SECONDS
        recent(t)  == t > minute_ago
        cleaned    == SelectSeq(events, recent)
    IN  IF Len(cleaned) >= POSEIDON_MAX_EVENTS_PER_MINUTE
        THEN [events |-> cleaned, allowed |-> FALSE]
        ELSE [events |-> Append(cleaned, stamp), allowed |-> TRUE]

\* A thread that is not in a notify_* call; outcome is how its last call ended.
IdleNotifier(outcome) ==
    [pc |-> "idle", op |-> "none", stamp |-> 0, allowed_at |-> 0, outcome |-> outcome]

\* The hooks at rest.
HooksQuiet ==
    /\ POSEIDON_WEBHOOK_ENABLED = TRUE
    /\ events_this_minute = << >>
    /\ notifiers = [t \in Tasks |-> IdleNotifier("none")]
    /\ submitted = << >>
    /\ notifyCalls = 0

----------------------------------------------------------------------------
(* The singleton pattern of TenantRegistry and TenantVespaClientPool *)

Classes == {"TenantRegistry", "TenantVespaClientPool"}

\* cls._instance is None.
NoObject == 0

\* What super().__new__(cls) makes: an object without the attribute
\* _initialized and without a map.
NewObject == [initialized |-> "unset", entries |-> {}]

\* getattr(self, "_initialized", False)
IsInitialized(obj) == obj.initialized = "true"

\* A thread that is not constructing and holds no instance.
IdleBuilder == [pc |-> "idle", cls |-> "none", self |-> NoObject]

\* Both classes before their first construction.
SingQuiet ==
    /\ instance = [c \in Classes |-> NoObject]
    /\ cls_lock = [c \in Classes |-> {}]
    /\ objects = [c \in Classes |-> << >>]
    /\ builders = [t \in Tasks |-> IdleBuilder]
    /\ replaced = [c \in Classes |-> {}]

----------------------------------------------------------------------------
(* TenantRegistry called from several threads *)

\* Entering a with self._cache_lock block: the lock is re-entrant.
CacheLockFree(owner, th) == owner \subseteq {th}

\* Mutant of ReleaseCacheLock: the block is left with the lock still held.
ReleaseCacheLock_kept(owner, th) == owner

\* Leaving a with self._cache_lock block.
ReleaseCacheLock(owner, th) == owner \ {th}

\* A thread that is not in a Registry call.  held is the record the call
\* read or returned, read_epoch the number of invalidations begun when it was
\* read from the store, began_after the invalidation that had returned when
\* the call began, idx the number of the thread's own invalidation.
IdleCaller ==
    [pc |-> "idle", op |-> "none", org |-> None, held |-> None,
     read_epoch |-> 0, began_after |-> 0, idx |-> 0]

\* The points at which a call waits for, and holds, _cache_lock.
CacheLockWaits == {"get_wait", "add_wait", "inv_wait"}

CacheLockHolds == {"get_locked", "add_locked", "inv_locked"}

RaceQuiet ==
    /\ cache_lock = {}
    /\ callers = [t \in Tasks |-> IdleCaller]
    /\ inv_started = 0
    /\ inv_returned = 0
    /\ entry_epoch = [o \in Orgs |-> 0]

ConcQuiet == HooksQuiet /\ SingQuiet /\ RaceQuiet



----------------------------------------------------------------------------
(* The requests the middleware receives *)

\* The task (and Context) a request runs in.
ReqTask == 1

NoPayload == [state |-> "absent", tenant_id |-> None, organization_id |-> None]

Payload(tenant, org) == [state |-> "data", tenant_id |-> tenant, organization_id |-> org]

\* retrieve_auth_token_data_from_redis: nothing, an error, or token data (the
\* last one a session of the default tenant).
TokenStates ==
    {NoPayload,
     [state |-> "error", tenant_id |-> None, organization_id |-> None],
     Payload("org_7", "acct_7"), Payload("org_7", None), Payload(Malformed, None),
     Payload(POSTGRES_DEFAULT_SCHEMA, None)}

\* The anonymous-user cookie: none, one that does not decode, or its claims.
AnonStates ==
    {NoPayload,
     [state |-> "undecodable", tenant_id |-> None, organization_id |-> None],
     Payload("org_7", None), Payload(Malformed, None)}

Requests ==
    [header : {None, "org_7", Malformed},
     auth   : {None, "acct_7"},
     token  : TokenStates,
     anon   : AnonStates,
     cookie : {None, "acct_7", Malformed},
     down   : BOOLEAN]

NoRequest ==
    [header |-> None, auth |-> None, token |-> NoPayload, anon |-> NoPayload,
     cookie |-> None, down |-> FALSE]

NothingSeen == [f \in Fields |-> None]

NotResolved == Resolved(None, None, None, None, "none", << >>, << >>)

\* The middleware at rest.
ResQuiet ==
    /\ req = NoRequest
    /\ pc = "idle"
    /\ resolved = NotResolved
    /\ seen = NothingSeen

----------------------------------------------------------------------------
(* SpecRegistry: the Registry used sequentially *)

\* The history record of one get_tenant_infrastructure call.
CallEvent(org, bypass, r) ==
    [at       |-> now,
     bypass   |-> bypass,
     row      |-> store[org],
     afterInvalidate |-> invalidated,
     hadEntry |-> org \in DOMAIN cache,
     age      |-> IF org \in DOMAIN cache THEN now - cache[org].cached_at ELSE 0,
     queried  |-> r.queried,
     result   |-> r.result,
     cached   |-> IF org \in DOMAIN r.cache
                  THEN [present |-> TRUE, entry |-> r.cache[org]]
                  ELSE [present |-> FALSE]]

\* What is kept of the call before the last one.
Earlier(e) == [at |-> e.at, bypass |-> e.bypass, queried |-> e.queried, result |-> e.result]

Push(h, e) == IF Len(h) = 0 THEN <<e>> ELSE <<Earlier(h[Len(h)]), e>>

RegStart ==
    /\ cache = << >>
    /\ \E s \in StoreStates(Watched) :
          store = [o \in Orgs |-> IF o = Watched
                                  THEN s
                                  ELSE [present |-> TRUE, row |-> StoreRow(o, "active")]]
    /\ now = 0
    /\ ticks = 0
    /\ calls = << >>
    /\ invalidated = FALSE

RegGet(org, bypass) ==
    LET r == GetTenantInfrastructure(cache, store, org, bypass, now, FALSE)
    IN  /\ cache' = r.cache
        /\ calls' = IF org = Watched THEN Push(calls, CallEvent(org, bypass, r)) ELSE calls
        /\ invalidated' = IF org = Watched THEN FALSE ELSE invalidated
        /\ UNCHANGED <<store, now, ticks>>

RegInvalidate(org) ==
    /\ cache' = InvalidateCache(cache, org)
    /\ invalidated' = IF org = None \/ org = Watched THEN TRUE ELSE invalidated
    /\ UNCHANGED <<store, now, ticks, calls>>

\* The provisioning flow rewrites an organization's row.
StoreSet(s) ==
    /\ s # store[Watched]
    /\ store' = [store EXCEPT ![Watched] = s]
    /\ UNCHANGED <<cache, now, ticks, calls, invalidated>>

Tick(d) ==
    /\ ticks < MaxTicks
    /\ now' = now + d
    /\ ticks' = ticks + 1
    /\ UNCHANGED <<cache, store, calls, invalidated>>

RegNext ==
    \/ \E org \in Orgs, bypass \in BOOLEAN : RegGet(org, bypass)
    \/ \E org \in Orgs \cup {None} : RegInvalidate(org)
    \/ \E s \in StoreStates(Watched) : StoreSet(s)
    \/ \E d \in TickSteps : Tick(d)

\* The Registry at rest, for the specifications that do not exercise it.
RegQuiet ==
    /\ cache = << >>
    /\ store = [o \in Orgs |-> [present |-> TRUE, row |-> StoreRow(o, "active")]]
    /\ now = 0
    /\ ticks = 0
    /\ calls = << >>
    /\ invalidated = FALSE

RegInit ==
    /\ RegStart
    /\ MULTI_TENANT = TRUE
    /\ TENANT_ISOLATION_MODE = "database"
    /\ ctx = [t \in Tasks |-> ContextDefaults(TRUE)]
    /\ stack = [t \in Tasks |-> << >>]
    /\ undone = [t \in Tasks |-> << >>]
    /\ ResQuiet
    /\ PoolQuiet
    /\ ConcQuiet

SpecRegistry ==
    RegInit /\ [][RegNext /\ UNCHANGED <<cfgVars, concVars, ctxVars, resVars, poolVars>>]_vars

----------------------------------------------------------------------------
(* SpecContext: two tasks, each in its own Context *)

InfraOf(org) == TenantInfrastructure(StoreRow(org, "active"))

\* The argument sets the tasks call set_tenant_context with: the middleware's
\* calls (dedicated infrastructure, shared schema, default tenant) and a call
\* that names no tenant at all.
CtxArgs ==
    {Args(org, org, database_url(InfraOf(org)), vespa_url(InfraOf(org)), "database") :
        org \in Orgs}
    \cup {Args("org_7", "acct_7", None, None, "schema"),
          Args(POSTGRES_DEFAULT_SCHEMA, None, None, None, "database"),
          Args(None, None, None, None, "schema")}

CtxInit ==
    /\ RegQuiet
    /\ MULTI_TENANT \in BOOLEAN
    /\ TENANT_ISOLATION_MODE = "schema"
    /\ ctx = [t \in Tasks |-> ContextDefaults(MULTI_TENANT)]
    /\ stack = [t \in Tasks |-> << >>]
    /\ undone = [t \in Tasks |-> << >>]
    /\ ResQuiet
    /\ PoolQuiet
    /\ ConcQuiet

\* before: what the getters returned when the call was made (history).
CtxSet(task, args) ==
    /\ Len(stack[task]) < MaxNest
    /\ LET r == SetTenantContext(ctx, task, args)
       IN  /\ ctx' = r.ctx
           /\ stack' = [stack EXCEPT ![task] =
                            Append(@, [args   |-> args,
                                       tokens |-> r.tokens,
                                       before |-> Getters(ctx[task])])]
           /\ undone' = [undone EXCEPT ![task] = << >>]
    /\ UNCHANGED <<regVars, cfgVars, concVars, resVars, poolVars>>

\* The innermost outstanding call is reset first.
CtxReset(task) ==
    /\ stack[task] # << >>
    /\ ctx' = ResetTenantContext(ctx, task, stack[task][Len(stack[task])].tokens)
    /\ stack' = [stack EXCEPT ![task] = SubSeq(@, 1, Len(@) - 1)]
    /\ undone' = [undone EXCEPT ![task] = <<stack[task][Len(stack[task])]>>]
    /\ UNCHANGED <<regVars, cfgVars, concVars, resVars, poolVars>>

CtxNext ==
    \/ \E task \in Tasks, args \in CtxArgs : CtxSet(task, args)
    \/ \E task \in Tasks : CtxReset(task)

SpecContext == CtxInit /\ [][CtxNext]_vars

----------------------------------------------------------------------------
(* SpecResolver: requests through the middleware, one at a time *)

\* The lookup store holds any rows for the organizations and none for the
\* default schema name.
ResInit ==
    /\ cache = << >>
    /\ \E rows \in [Orgs -> UNION {StoreStates(o) : o \in Orgs}] :
          /\ \A o \in Orgs : rows[o] \in StoreStates(o)
          /\ store = [o \in Orgs \cup {POSTGRES_DEFAULT_SCHEMA} |->
                         IF o \in Orgs THEN rows[o] ELSE [present |-> FALSE]]
    /\ now = 0
    /\ ticks = 0
    /\ calls = << >>
    /\ invalidated = FALSE
    /\ MULTI_TENANT \in BOOLEAN
    /\ TENANT_ISOLATION_MODE \in {"schema", "database"}
    /\ (~MULTI_TENANT) => /\ TENANT_ISOLATION_MODE = "schema"
                          /\ \A o \in Orgs : store[o].present /\ store[o].row.status = "active"
    /\ ctx = [t \in Tasks |-> ContextDefaults(MULTI_TENANT)]
    /\ stack = [t \in Tasks |-> << >>]
    /\ undone = [t \in Tasks |-> << >>]
    /\ ResQuiet
    /\ PoolQuiet
    /\ ConcQuiet

\* set_tenant_id up to its await of call_next (lines 58-78), for a request that
\* starts in a Context of its own where nothing is set yet.
Dispatch(rq) ==
    /\ pc = "idle"
    /\ req' = rq
    /\ seen' = NothingSeen
    /\ LET fresh == [ctx EXCEPT ![ReqTask] = ContextDefaults(MULTI_TENANT)]
       IN  IF MULTI_TENANT
           THEN \E r \in {GetTenantInfoFromRequest(rq, TENANT_ISOLATION_MODE, cache, store, now)} :
                    /\ resolved' = r
                    /\ cache' = r.cache
                    /\ IF r.kind = "raise"
                       THEN /\ pc' = "rejected"
                            /\ ctx' = fresh
                       ELSE /\ pc' = "call_next"
                            /\ ctx' = SetTenantContext(fresh, ReqTask,
                                          Args(r.tenant_id, r.org_id, r.db_url, r.vespa_url,
                                               TENANT_ISOLATION_MODE)).ctx
           ELSE /\ resolved' = NotResolved
                /\ cache' = cache
                /\ pc' = "call_next"
                /\ ctx' = [fresh EXCEPT ![ReqTask].tenant_id = POSTGRES_DEFAULT_SCHEMA]
    /\ UNCHANGED <<store, now, ticks, calls, invalidated, cfgVars, concVars, stack, undone, poolVars>>

\* call_next(request): the downstream handler runs in the request's Context and
\* returns a response or raises (lines 78-82); set_tenant_id returns that
\* response or re-raises at once: it kept no token of its set_tenant_context
\* call and resets nothing, so the Context stays as Dispatch left it.
CallNext(ok) ==
    /\ pc = "call_next"
    /\ seen' = Getters(ctx[ReqTask])
    /\ pc' = IF ok THEN "done" ELSE "handler_raised"
    /\ UNCHANGED <<regVars, cfgVars, concVars, ctxVars, req, resolved, poolVars>>

\* The request is over and its task ends; the next request will run in a task
\* and a Context of its own.
Complete ==
    /\ pc \in {"done", "handler_raised", "rejected"}
    /\ req' = NoRequest
    /\ pc' = "idle"
    /\ resolved' = NotResolved
    /\ seen' = NothingSeen
    /\ ctx' = [ctx EXCEPT ![ReqTask] = ContextDefaults(MULTI_TENANT)]
    /\ UNCHANGED <<regVars, cfgVars, concVars, stack, undone, poolVars>>

ResNext ==
    \/ \E rq \in Requests : Dispatch(rq)
    \/ \E ok \in BOOLEAN : CallNext(ok)
    \/ Complete

SpecResolver == ResInit /\ [][ResNext]_vars

----------------------------------------------------------------------------
(* SpecPool: two threads calling the client pool *)

\* Clock advances between pool operations.
MaxPoolTicks == 1

\* httpx.Client objects constructed in one run.
MaxClientObjects == 3

\* One advance makes a health check due again.
PoolTickSteps == {HEALTH_CHECK_INTERVAL + 1}

\* The endpoints callers name explicitly; None is "no argument".
ExplicitUrls == {None} \cup {vespa_url(InfraOf(org)) : org \in Orgs}

HealthOutcomes == {"up", "down", "error"}

\* The set_tenant_context calls the two threads made before they use the
\* pool.  Either the first has dedicated infrastructure and the second passed
\* a locator with the default isolation_mode argument, or the first is in
\* database mode with no locator and the second in plain schema mode.
PoolCtxArgs ==
    {<<Args(Watched, Watched, database_url(InfraOf(Watched)), vespa_url(InfraOf(Watched)),
            "database"),
       Args("org_7", "org_7", database_url(InfraOf("org_7")), vespa_url(InfraOf("org_7")),
            "schema")>>,
     <<Args(Watched, Watched, None, None, "database"),
       Args("org_7", Watched, None, None, "schema")>>}

PoolInit ==
    /\ RegQuiet
    /\ MULTI_TENANT = TRUE
    /\ TENANT_ISOLATION_MODE = "database"
    /\ \E args \in PoolCtxArgs :
          ctx = SetTenantContext(
                    SetTenantContext([t \in Tasks |-> ContextDefaults(TRUE)], 1, args[1]).ctx,
                    2, args[2]).ctx
    /\ stack = [t \in Tasks |-> << >>]
    /\ undone = [t \in Tasks |-> << >>]
    /\ ResQuiet
    /\ PoolQuiet
    /\ ConcQuiet

\* The history record of one pool operation.
PoolEvent(th, r) ==
    [op      |-> threads[th].op,
     url     |-> threads[th].url,
     hit     |-> r.hit,
     check   |-> r.check,
     full    |-> r.full,
     evicted |-> r.evicted,
     dropped |-> r.pool.removed \ removed,
     create  |-> r.create,
     result  |-> r.result]

PoolPush(h, e) == <<e>>

\* A thread calls get_client(arg): the target is resolved before the lock is
\* taken (line 99).
CallGetClient(th, arg) ==
    /\ threads[th].pc = "idle"
    /\ threads' = [threads EXCEPT ![th] =
                      [pc |-> "waiting", op |-> "get_client", arg |-> arg,
                       url |-> ResolveVespaUrl(arg, ctx[th]),
                       result |-> ClientReturned(NoClient)]]
    /\ UNCHANGED <<regVars, cfgVars, concVars, ctxVars, resVars,
                   clients, client_lock, nextClient, closed, removed, ops>>

CallInvalidateClient(th, url) ==
    /\ threads[th].pc = "idle"
    /\ threads' = [threads EXCEPT ![th] =
                      [pc |-> "waiting", op |-> "invalidate_client", arg |-> url,
                       url |-> url, result |-> ClientReturned(NoClient)]]
    /\ UNCHANGED <<regVars, cfgVars, concVars, ctxVars, resVars,
                   clients, client_lock, nextClient, closed, removed, ops>>

CallCloseAll(th) ==
    /\ threads[th].pc = "idle"
    /\ threads' = [threads EXCEPT ![th] =
                      [pc |-> "waiting", op |-> "close_all", arg |-> None,
                       url |-> None, result |-> ClientReturned(NoClient)]]
    /\ UNCHANGED <<regVars, cfgVars, concVars, ctxVars, resVars,
                   clients, client_lock, nextClient, closed, removed, ops>>

\* with self._client_lock: the thread enters when no thread holds the lock.
Acquire(th) ==
    /\ threads[th].pc = "waiting"
    /\ client_lock = {}
    /\ client_lock' = {th}
    /\ threads' = [threads EXCEPT ![th].pc = "locked"]
    /\ UNCHANGED <<regVars, cfgVars, concVars, ctxVars, resVars,
                   clients, nextClient, closed, removed, ops>>

\* The locked body of an operation ran and left r; leaving the with block
\* releases the lock, on return and on exception alike.  A get_client caller
\* then holds what the call gave it; the other two calls give nothing.
Leave(th, r) ==
    /\ clients' = r.pool.clients
    /\ closed' = r.pool.closed
    /\ removed' = r.pool.removed
    /\ nextClient' = IF r.create = "ok" THEN nextClient + 1 ELSE nextClient
    /\ client_lock' = {}
    /\ threads' = [threads EXCEPT ![th] =
                      IF threads[th].op = "get_client"
                      THEN [@ EXCEPT !.pc = IF r.result.kind = "raise"
                                            THEN "raised"
                                            ELSE "returned",
                                     !.arg = None,
                                     !.url = None,
                                     !.result = r.result]
                      ELSE IdleThread]
    /\ ops' = PoolPush(ops, PoolEvent(th, r))
    /\ UNCHANGED <<regVars, cfgVars, concVars, ctxVars, resVars>>

GetClientBody(th, health, create_ok) ==
    /\ threads[th].pc = "locked"
    /\ threads[th].op = "get_client"
    /\ nextClient <= MaxClientObjects
    /\ \E r \in {GetClient(PoolOf(clients, closed, removed), threads[th].url, now,
                           health, create_ok, nextClient)} :
          Leave(th, r)

InvalidateClientBody(th) ==
    /\ threads[th].pc = "locked"
    /\ threads[th].op = "invalidate_client"
    /\ Leave(th, [pool    |-> InvalidateClient(PoolOf(clients, closed, removed),
                                               threads[th].url),
                  result  |-> ClientReturned(NoClient),
                  hit     |-> threads[th].url \in Urls(clients),
                  check   |-> "none", full |-> << >>,
                  evicted |-> {}, create |-> "none"])

CloseAllBody(th) ==
    /\ threads[th].pc = "locked"
    /\ threads[th].op = "close_all"
    /\ Leave(th, [pool    |-> CloseAll(PoolOf(clients, closed, removed)),
                  result  |-> ClientReturned(NoClient),
                  hit     |-> FALSE,
                  check   |-> "none", full |-> << >>,
                  evicted |-> {}, create |-> "none"])

\* The caller is done with what the call gave it.
PoolDone(th) ==
    /\ threads[th].pc \in {"returned", "raised"}
    /\ threads' = [threads EXCEPT ![th] = IdleThread]
    /\ UNCHANGED <<regVars, cfgVars, concVars, ctxVars, resVars,
                   clients, client_lock, nextClient, closed, removed, ops>>

PoolTick(d) ==
    /\ ticks < MaxPoolTicks
    /\ now' = now + d
    /\ ticks' = ticks + 1
    /\ UNCHANGED <<cache, store, calls, invalidated, cfgVars, concVars, ctxVars, resVars, poolVars>>

PoolNext ==
    \/ \E th \in Tasks, arg \in ExplicitUrls : CallGetClient(th, arg)
    \/ \E th \in Tasks, url \in ExplicitUrls \ {None} : CallInvalidateClient(th, url)
    \/ \E th \in Tasks : CallCloseAll(th)
    \/ \E th \in Tasks : Acquire(th)
    \/ \E th \in Tasks, health \in HealthOutcomes, create_ok \in BOOLEAN :
          GetClientBody(th, health, create_ok)
    \/ \E th \in Tasks : InvalidateClientBody(th)
    \/ \E th \in Tasks : CloseAllBody(th)
    \/ \E th \in Tasks : PoolDone(th)
    \/ \E d \in PoolTickSteps : PoolTick(d)

SpecPool == PoolInit /\ [][PoolNext]_vars

----------------------------------------------------------------------------
(* SpecHooks: two indexing threads calling the notification hooks *)

\* A short delay, and what then is left of a minute.
HookTickSteps == {1, RATE_WINDOW_SECONDS - 1}

\* Documents in the batch handed to notify_batch_indexed.
BatchSizes == {0, 2}

HooksInit ==
    /\ RegQuiet
    /\ MULTI_TENANT = TRUE
    /\ TENANT_ISOLATION_MODE = "schema"
    /\ ctx = [t \in Tasks |-> ContextDefaults(TRUE)]
    /\ stack = [t \in Tasks |-> << >>]
    /\ undone = [t \in Tasks |-> << >>]
    /\ ResQuiet
    /\ PoolQuiet
    /\ POSEIDON_WEBHOOK_ENABLED \in BOOLEAN
    /\ events_this_minute = << >>
    /\ notifiers = [t \in Tasks |-> IdleNotifier("none")]
    /\ submitted = << >>
    /\ notifyCalls = 0
    /\ SingQuiet
    /\ RaceQuiet

\* Thread th calls notify_document_indexed or notify_batch_indexed (with docs
\* documents): the call returns at once when the hooks are disabled or the
\* batch is empty; otherwise it enters _check_rate_limit and reads the clock
\* (line 56), before the lock is taken.
NotifyEnter(th, op, docs) ==
    /\ notifiers[th].pc = "idle"
    /\ notifyCalls < MaxNotifies
    /\ notifyCalls' = notifyCalls + 1
    /\ notifiers' = [notifiers EXCEPT ![th] =
           IF ~POSEIDON_WEBHOOK_ENABLED
           THEN IdleNotifier("disabled")
           ELSE IF op = "notify_batch_indexed" /\ docs = 0
                THEN IdleNotifier("empty")
                ELSE [pc |-> "stamped", op |-> op, stamp |-> now, allowed_at |-> 0,
                      outcome |-> "none"]]
    /\ UNCHANGED <<regVars, cfgVars, singVars, raceVars, ctxVars, resVars, poolVars,
                   POSEIDON_WEBHOOK_ENABLED, events_this_minute, submitted>>

\* The locked block of _check_rate_limit (lines 59-67); a refused call logs
\* and returns None.
RateLimitBody(th) ==
    /\ notifiers[th].pc = "stamped"
    /\ \E r \in {CheckRateLimit(events_this_minute, notifiers[th].stamp)} :
          /\ events_this_minute' = r.events
          /\ notifiers' = [notifiers EXCEPT ![th] =
                 IF r.allowed THEN [@ EXCEPT !.pc = "allowed", !.allowed_at = now]
                 ELSE IdleNotifier("limited")]
    /\ UNCHANGED <<regVars, cfgVars, singVars, raceVars, ctxVars, resVars, poolVars,
                   POSEIDON_WEBHOOK_ENABLED, submitted, notifyCalls>>

\* The event is built and handed to the executor (lines 126-129, 182-185);
\* an exception of _get_executor() or submit() is logged and swallowed.
SubmitEvent(th, queue_ok) ==
    /\ notifiers[th].pc = "allowed"
    /\ submitted' = IF queue_ok
                    THEN Append(submitted, [at |-> now, allowed_at |-> notifiers[th].allowed_at])
                    ELSE submitted
    /\ notifiers' = [notifiers EXCEPT ![th] =
           IdleNotifier(IF queue_ok THEN "submitted" ELSE "queue_failed")]
    /\ UNCHANGED <<regVars, cfgVars, singVars, raceVars, ctxVars, resVars, poolVars,
                   POSEIDON_WEBHOOK_ENABLED, events_this_minute, notifyCalls>>

HookTick(d) ==
    /\ ticks < MaxHookTicks
    /\ now' = now + d
    /\ ticks' = ticks + 1
    /\ UNCHANGED <<cache, store, calls, invalidated, cfgVars, concVars, ctxVars,
                   resVars, poolVars>>

HooksNext ==
    \/ \E th \in Tasks : NotifyEnter(th, "notify_document_indexed", 1)
    \/ \E th \in Tasks, docs \in BatchSizes : NotifyEnter(th, "notify_batch_indexed", docs)
    \/ \E th \in Tasks : RateLimitBody(th)
    \/ \E th \in Tasks, queue_ok \in BOOLEAN : SubmitEvent(th, queue_ok)
    \/ \E d \in HookTickSteps : HookTick(d)

SpecHooks == HooksInit /\ [][HooksNext]_vars

----------------------------------------------------------------------------
(* SpecSingleton: two threads constructing the singletons *)

SingInit ==
    /\ RegQuiet
    /\ MULTI_TENANT = TRUE
    /\ TENANT_ISOLATION_MODE = "schema"
    /\ ctx = [t \in Tasks |-> ContextDefaults(TRUE)]
    /\ stack = [t \in Tasks |-> << >>]
    /\ undone = [t \in Tasks |-> << >>]
    /\ ResQuiet
    /\ PoolQuiet
    /\ HooksQuiet
    /\ SingQuiet
    /\ RaceQuiet

SingFrame == UNCHANGED <<regVars, cfgVars, hookVars, raceVars, ctxVars, resVars, poolVars>>

\* Thread th evaluates cls(): __new__ tests cls._instance without the lock
\* (first line of __new__); with an instance there it returns it and __init__
\* is called on it.
Construct(th, cls) ==
    /\ builders[th].pc = "idle"
    /\ builders' = [builders EXCEPT ![th] =
           IF instance[cls] = NoObject
           THEN [pc |-> "new_wait", cls |-> cls, self |-> NoObject]
           ELSE [pc |-> "init", cls |-> cls, self |-> instance[cls]]]
    /\ UNCHANGED <<instance, cls_lock, objects, replaced>>
    /\ SingFrame

\* with cls._lock:
NewAcquire(th) ==
    /\ builders[th].pc = "new_wait"
    /\ cls_lock[builders[th].cls] = {}
    /\ cls_lock' = [cls_lock EXCEPT ![builders[th].cls] = {th}]
    /\ builders' = [builders EXCEPT ![th].pc = "new_locked"]
    /\ UNCHANGED <<instance, objects, replaced>>
    /\ SingFrame

\* Under the lock: the second test of cls._instance, and
\* cls._instance = super().__new__(cls) when it still is None; otherwise the
\* lock is released and the instance returned.
NewCreate(th) ==
    /\ builders[th].pc = "new_locked"
    /\ LET cls == builders[th].cls
       IN  IF instance[cls] = NoObject
           THEN /\ objects' = [objects EXCEPT ![cls] = Append(@, NewObject)]
                /\ instance' = [instance EXCEPT ![cls] = Len(objects[cls]) + 1]
                /\ builders' = [builders EXCEPT ![th].pc = "new_created"]
                /\ UNCHANGED cls_lock
           ELSE /\ cls_lock' = [cls_lock EXCEPT ![cls] = {}]
                /\ builders' = [builders EXCEPT ![th].pc = "init",
                                                ![th].self = instance[cls]]
                /\ UNCHANGED <<instance, objects>>
    /\ UNCHANGED replaced
    /\ SingFrame

\* cls._instance._initialized = False, then the lock is released and
\* cls._instance returned.
NewMark(th) ==
    /\ builders[th].pc = "new_created"
    /\ LET cls == builders[th].cls
       IN  /\ objects' = [objects EXCEPT ![cls][instance[cls]].initialized = "false"]
           /\ cls_lock' = [cls_lock EXCEPT ![cls] = {}]
           /\ builders' = [builders EXCEPT ![th].pc = "init", ![th].self = instance[cls]]
    /\ UNCHANGED <<instance, replaced>>
    /\ SingFrame

\* __init__: if getattr(self, "_initialized", False): return
InitCheck(th) ==
    /\ builders[th].pc = "init"
    /\ builders' = [builders EXCEPT ![th].pc =
           IF IsInitialized(objects[builders[th].cls][builders[th].self])
           THEN "have" ELSE "init_map"]
    /\ UNCHANGED <<instance, cls_lock, objects, replaced>>
    /\ SingFrame

\* self._cache = {} / self._clients = {} (and a new RLock beside it).
InitMap(th) ==
    /\ builders[th].pc = "init_map"
    /\ LET cls == builders[th].cls
           me  == builders[th].self
       IN  /\ replaced' = [replaced EXCEPT ![cls] = @ \cup objects[cls][me].entries]
           /\ objects' = [objects EXCEPT ![cls][me].entries = {}]
    /\ builders' = [builders EXCEPT ![th].pc = "init_done"]
    /\ UNCHANGED <<instance, cls_lock>>
    /\ SingFrame

\* self._initialized = True, and the constructor returns.
InitDone(th) ==
    /\ builders[th].pc = "init_done"
    /\ objects' = [objects EXCEPT ![builders[th].cls][builders[th].self].initialized = "true"]
    /\ builders' = [builders EXCEPT ![th].pc = "have"]
    /\ UNCHANGED <<instance, cls_lock, replaced>>
    /\ SingFrame

\* The thread uses the instance it got: a lookup caches an entry, a
\* get_client pools a client.
AddEntry(th) ==
    /\ builders[th].pc = "have"
    /\ th \notin objects[builders[th].cls][builders[th].self].entries
    /\ objects' = [objects EXCEPT ![builders[th].cls][builders[th].self].entries = @ \cup {th}]
    /\ UNCHANGED <<instance, cls_lock, builders, replaced>>
    /\ SingFrame

\* The thread drops its reference.
Forget(th) ==
    /\ builders[th].pc = "have"
    /\ builders' = [builders EXCEPT ![th] = IdleBuilder]
    /\ UNCHANGED <<instance, cls_lock, objects, replaced>>
    /\ SingFrame

SingNext ==
    \/ \E th \in Tasks, cls \in Classes : Construct(th, cls)
    \/ \E th \in Tasks : NewAcquire(th)
    \/ \E th \in Tasks : NewCreate(th)
    \/ \E th \in Tasks : NewMark(th)
    \/ \E th \in Tasks : InitCheck(th)
    \/ \E th \in Tasks : InitMap(th)
    \/ \E th \in Tasks : InitDone(th)
    \/ \E th \in Tasks : AddEntry(th)
    \/ \E th \in Tasks : Forget(th)

SpecSingleton == SingInit /\ [][SingNext]_vars

----------------------------------------------------------------------------
(* SpecRace: two threads calling the Registry while the store changes *)

RaceInit ==
    /\ RegStart
    /\ MULTI_TENANT = TRUE
    /\ TENANT_ISOLATION_MODE = "database"
    /\ ctx = [t \in Tasks |-> ContextDefaults(TRUE)]
    /\ stack = [t \in Tasks |-> << >>]
    /\ undone = [t \in Tasks |-> << >>]
    /\ ResQuiet
    /\ PoolQuiet
    /\ ConcQuiet

RaceFrame == UNCHANGED <<cfgVars, hookVars, singVars, ctxVars, resVars, poolVars>>

\* Thread th, not inside a pool call, calls get_tenant_infrastructure(org,
\* bypass_cache): with bypass_cache it goes straight to the store.
CallLookup(th, org, bypass_cache) ==
    /\ callers[th].pc = "idle"
    /\ threads[th].pc \notin {"waiting", "locked"}
    /\ callers' = [callers EXCEPT ![th] =
           [IdleCaller EXCEPT !.pc = IF bypass_cache THEN "query" ELSE "get_wait",
                              !.op = "get_tenant_infrastructure",
                              !.org = org,
                              !.began_after = inv_returned]]
    /\ UNCHANGED <<regVars, cache_lock, inv_started, inv_returned, entry_epoch>>
    /\ RaceFrame

\* Thread th calls invalidate_cache(org); org = None is "all".
CallInvalidate(th, org) ==
    /\ callers[th].pc = "idle"
    /\ threads[th].pc \notin {"waiting", "locked"}
    /\ inv_started < MaxInvalidations
    /\ inv_started' = inv_started + 1
    /\ callers' = [callers EXCEPT ![th] =
           [IdleCaller EXCEPT !.pc = "inv_wait", !.op = "invalidate_cache",
                              !.org = org, !.idx = inv_started + 1]]
    /\ UNCHANGED <<regVars, cache_lock, inv_returned, entry_epoch>>
    /\ RaceFrame

\* with self._cache_lock:
AcquireCacheLock(th) ==
    /\ callers[th].pc \in CacheLockWaits
    /\ CacheLockFree(cache_lock, th)
    /\ cache_lock' = cache_lock \cup {th}
    /\ callers' = [callers EXCEPT ![th].pc =
           CASE @ = "get_wait" -> "get_locked"
             [] @ = "add_wait" -> "add_locked"
             [] @ = "inv_wait" -> "inv_locked"]
    /\ UNCHANGED <<regVars, inv_started, inv_returned, entry_epoch>>
    /\ RaceFrame

\* The locked block of _get_from_cache: a live entry is returned to the
\* caller, an expired one deleted.
GetFromCacheBody(th) ==
    /\ callers[th].pc = "get_locked"
    /\ \E r \in {GetFromCache(cache, callers[th].org, now)} :
          /\ cache' = r.cache
          /\ callers' = [callers EXCEPT ![th] =
                 IF r.found
                 THEN [@ EXCEPT !.pc = "returned", !.held = r.value,
                                !.read_epoch = entry_epoch[callers[th].org]]
                 ELSE [@ EXCEPT !.pc = "query"]]
    /\ cache_lock' = ReleaseCacheLock(cache_lock, th)
    /\ UNCHANGED <<store, now, ticks, calls, invalidated,
                   inv_started, inv_returned, entry_epoch>>
    /\ RaceFrame

\* _query_tenant_infrastructure, with no lock held.
QueryStore(th, down) ==
    /\ callers[th].pc = "query"
    /\ \E q \in {QueryTenantInfrastructure(store, callers[th].org, down)} :
          callers' = [callers EXCEPT ![th] =
              IF q.kind = "return"
              THEN [@ EXCEPT !.pc = "add_wait", !.held = q.value,
                             !.read_epoch = inv_started]
              ELSE [@ EXCEPT !.pc = "raised"]]
    /\ UNCHANGED <<regVars, cache_lock, inv_started, inv_returned, entry_epoch>>
    /\ RaceFrame

\* The locked block of _add_to_cache, and the return of the record.
AddToCacheBody(th) ==
    /\ callers[th].pc = "add_locked"
    /\ cache' = AddToCache(cache, callers[th].org, callers[th].held, now)
    /\ entry_epoch' = [entry_epoch EXCEPT ![callers[th].org] = callers[th].read_epoch]
    /\ callers' = [callers EXCEPT ![th].pc = "returned"]
    /\ cache_lock' = ReleaseCacheLock(cache_lock, th)
    /\ UNCHANGED <<store, now, ticks, calls, invalidated, inv_started, inv_returned>>
    /\ RaceFrame

\* The locked block of invalidate_cache, and its return.
InvalidateBody(th) ==
    /\ callers[th].pc = "inv_locked"
    /\ cache' = InvalidateCache(cache, callers[th].org)
    /\ inv_returned' = IF callers[th].idx > inv_returned THEN callers[th].idx
                       ELSE inv_returned
    /\ callers' = [callers EXCEPT ![th] = IdleCaller]
    /\ cache_lock' = ReleaseCacheLock(cache_lock, th)
    /\ UNCHANGED <<store, now, ticks, calls, invalidated, inv_started, entry_epoch>>
    /\ RaceFrame

\* The caller is done with what get_tenant_infrastructure gave it.
LookupDone(th) ==
    /\ callers[th].pc \in {"returned", "raised"}
    /\ callers' = [callers EXCEPT ![th] = IdleCaller]
    /\ UNCHANGED <<regVars, cache_lock, inv_started, inv_returned, entry_epoch>>
    /\ RaceFrame

RaceNext ==
    \/ \E th \in Tasks, bypass_cache \in BOOLEAN : CallLookup(th, Watched, bypass_cache)
    \/ \E th \in Tasks, org \in {Watched, None} : CallInvalidate(th, org)
    \/ \E th \in Tasks : AcquireCacheLock(th)
    \/ \E th \in Tasks : GetFromCacheBody(th)
    \/ \E th \in Tasks, down \in BOOLEAN : QueryStore(th, down)
    \/ \E th \in Tasks : AddToCacheBody(th)
    \/ \E th \in Tasks : InvalidateBody(th)
    \/ \E th \in Tasks : LookupDone(th)
    \/ (\E s \in StoreStates(Watched) : StoreSet(s)) /\ UNCHANGED raceVars /\ RaceFrame
    \/ (\E d \in {TENANT_CACHE_TTL_SECONDS + 1} : Tick(d)) /\ UNCHANGED raceVars /\ RaceFrame

SpecRace == RaceInit /\ [][RaceNext]_vars

----------------------------------------------------------------------------
(* SpecLocks: two threads calling the Registry and the client pool *)

\* A thread makes one call at a time: it calls the pool only when it is not
\* inside a Registry call.
OutsideRegistry(th) == callers[th].pc = "idle"

LocksNext ==
    \/ \E th \in Tasks, bypass_cache \in BOOLEAN : CallLookup(th, Watched, bypass_cache)
    \/ \E th \in Tasks, org \in {Watched, None} : CallInvalidate(th, org)
    \/ \E th \in Tasks : AcquireCacheLock(th)
    \/ \E th \in Tasks : GetFromCacheBody(th)
    \/ \E th \in Tasks, down \in BOOLEAN : QueryStore(th, down)
    \/ \E th \in Tasks : AddToCacheBody(th)
    \/ \E th \in Tasks : InvalidateBody(th)
    \/ \E th \in Tasks : LookupDone(th)
    \/ \E th \in Tasks : OutsideRegistry(th) /\ CallGetClient(th, None)
    \/ \E th \in Tasks :
          OutsideRegistry(th) /\ CallInvalidateClient(th, vespa_url(InfraOf(Watched)))
    \/ \E th \in Tasks : OutsideRegistry(th) /\ CallCloseAll(th)
    \/ \E th \in Tasks : Acquire(th)
    \/ \E th \in Tasks, health \in HealthOutcomes, create_ok \in BOOLEAN :
          GetClientBody(th, health, create_ok)
    \/ \E th \in Tasks : InvalidateClientBody(th)
    \/ \E th \in Tasks : CloseAllBody(th)
    \/ \E th \in Tasks : PoolDone(th)

SpecLocks == PoolInit /\ [][LocksNext]_vars

----------------------------------------------------------------------------
(* Tenant Resolver claims *)

\* A request is in the middleware or just left it.
InFlight == MULTI_TENANT /\ pc # "idle"

\* The Registry reported an organization of this request as suspended.
ReportedSuspended ==
    \E i \in 1..Len(resolved.lookups) : resolved.lookups[i].outcome = "suspended"

\* No signal of the request carries a malformed identifier.
WellFormed(rq) ==
    /\ rq.header # Malformed
    /\ rq.token.tenant_id # Malformed
    /\ rq.anon.tenant_id # Malformed
    /\ rq.cookie # Malformed

\* The identity first-match-wins resolution yields for a well-formed request:
\* trusted header, credential claim, session token, anonymous cookie, default.
PayloadIdentity(payload, step) ==
    [step      |-> step,
     tenant_id |-> payload.tenant_id,
     org_id    |-> IF payload.organization_id # None
                   THEN payload.organization_id
                   ELSE payload.tenant_id]

FirstMatch(rq) ==
    IF rq.header # None
    THEN [step |-> "header", tenant_id |-> rq.header, org_id |-> rq.header]
    ELSE IF rq.auth # None
         THEN [step |-> "credential", tenant_id |-> rq.auth, org_id |-> rq.auth]
         ELSE IF rq.token.state = "data"
              THEN PayloadIdentity(rq.token, "token")
              ELSE IF rq.anon.state = "data"
                   THEN PayloadIdentity(rq.anon, "anonymous")
                   ELSE [step |-> "default", tenant_id |-> POSTGRES_DEFAULT_SCHEMA,
                         org_id |-> None]

\* The locators the three-outcome rule attaches for org while the lookup store
\* answers: those of its record, or none when it has no row.
LocatorsOf(org) ==
    IF store[org].present
    THEN [db_url    |-> database_url(TenantInfrastructure(store[org].row)),
          vespa_url |-> vespa_url(TenantInfrastructure(store[org].row))]
    ELSE [db_url |-> None, vespa_url |-> None]

Suspended(org) == store[org].present /\ store[org].row.status = "suspended"

\* C1: on every path that looks the organization up, a suspended organization
\* makes the request fail with 403; set_tenant_context is not called and the
\* downstream handler is not invoked.
C1_SuspendedIsDenied ==
    (InFlight /\ ReportedSuspended) =>
        /\ pc = "rejected"
        /\ resolved.kind = "raise" /\ resolved.status = 403
        /\ ctx[ReqTask] = ContextDefaults(MULTI_TENANT)
        /\ seen = NothingSeen

\* C7: with no header, no credential claim (and no override cookie), a session
\* token carrying a tenant id resolves to that tenant id, to the token's
\* organization id (the tenant id when it has none) and, in database mode with
\* a non-suspended record, to that record's database URL and search URL.
C7_SessionTokenResolves ==
    (/\ InFlight
     /\ req.header = None /\ req.auth = None /\ req.cookie = None
     /\ req.token.state = "data" /\ req.token.tenant_id # Malformed
     /\ ~req.down
     /\ ~Suspended(FirstMatch(req).org_id))
    => /\ resolved.kind = "return"
       /\ resolved.tenant_id = req.token.tenant_id
       /\ resolved.org_id = FirstMatch(req).org_id
       /\ TENANT_ISOLATION_MODE = "database" =>
              /\ resolved.db_url = LocatorsOf(resolved.org_id).db_url
              /\ resolved.vespa_url = LocatorsOf(resolved.org_id).vespa_url

\* C8: in database mode, when the Registry raises NotProvisioned for the
\* resolved organization, the request proceeds and its context has isolation
\* mode 'schema', no database locator and no search locator, and keeps the
\* resolved tenant id and organization id.
C8_NotProvisionedFallsBackToSchema ==
    (/\ InFlight /\ TENANT_ISOLATION_MODE = "database"
     /\ WellFormed(req) /\ req.cookie = None
     /\ resolved.lookups # << >>
     /\ resolved.lookups[Len(resolved.lookups)].outcome = "not_provisioned")
    => /\ pc # "rejected"
       /\ Getters(ctx[ReqTask]) =
              [tenant_id      |-> FirstMatch(req).tenant_id,
               org_id         |-> FirstMatch(req).org_id,
               db_url         |-> None,
               vespa_url      |-> None,
               isolation_mode |-> "schema"]

\* C9: a well-formed override cookie wins over whatever an earlier step
\* resolved: the resolver returns the cookie value as tenant id and as
\* organization id, and in database mode the locators are those of a lookup of
\* the cookie's organization (found, not provisioned, or suspended -> 403).
C9_OverrideCookieWins ==
    (/\ InFlight
     /\ req.cookie # None /\ is_valid_schema_name(req.cookie)
     /\ ~req.down)
    => IF TENANT_ISOLATION_MODE = "database" /\ Suspended(req.cookie)
       THEN resolved.kind = "raise" /\ resolved.status = 403
       ELSE /\ resolved.kind = "return"
            /\ resolved.tenant_id = req.cookie
            /\ resolved.org_id = req.cookie
            /\ resolved.db_url = IF TENANT_ISOLATION_MODE = "database"
                                 THEN LocatorsOf(req.cookie).db_url
                                 ELSE None
            /\ resolved.vespa_url = IF TENANT_ISOLATION_MODE = "database"
                                    THEN LocatorsOf(req.cookie).vespa_url
                                    ELSE None

\* C10: resolution is first-match-wins in the order header, credential claim,
\* session token, anonymous cookie, default: the identity returned is that of
\* the earliest step that resolves, and the default tenant is returned only
\* when none of the four resolves.
C10_FirstMatchWins ==
    (/\ InFlight
     /\ WellFormed(req) /\ req.cookie = None
     /\ resolved.kind = "return")
    => /\ resolved.step = FirstMatch(req).step
       /\ resolved.tenant_id = FirstMatch(req).tenant_id
       /\ resolved.org_id = FirstMatch(req).org_id

\* C11: schema mode, trusted header passing validation: the context's tenant
\* id and organization id are the header value, it has no database locator and
\* no search locator, and the Registry was not called.
C11_HeaderSchemaMode ==
    (/\ InFlight /\ TENANT_ISOLATION_MODE = "schema"
     /\ req.header # None /\ is_valid_schema_name(req.header))
    => /\ pc # "rejected"
       /\ resolved.lookups = << >>
       /\ Getters(ctx[ReqTask]) =
              [tenant_id      |-> req.header,
               org_id         |-> req.header,
               db_url         |-> None,
               vespa_url      |-> None,
               isolation_mode |-> "schema"]

\* The handler of a header request in schema mode ran and read the header's
\* identity, although the request carried a credential, a session token and an
\* override cookie besides.
C11_Witness ==
    /\ InFlight /\ TENANT_ISOLATION_MODE = "schema"
    /\ pc = "done"
    /\ req.header = "org_7" /\ req.auth # None /\ req.cookie = "acct_7"
    /\ req.token.state = "data"
    /\ seen.tenant_id = "org_7" /\ seen.org_id = "org_7"
    /\ seen.db_url = None /\ seen.vespa_url = None

\* C12: a malformed identifier in any tenant signal makes the request fail
\* with a 400; it is never replaced by another identity or the default tenant.
C12_MalformedIsRejected ==
    (InFlight /\ ~WellFormed(req)) =>
        /\ pc = "rejected"
        /\ resolved.kind = "raise" /\ resolved.status = 400

\* No step of the request resolves an identity.
NothingResolves(rq) ==
    /\ rq.header = None \/ ~is_valid_schema_name(rq.header)
    /\ rq.auth = None
    /\ rq.token.state \in {"absent", "error"}
    /\ rq.anon.state \in {"absent", "undecodable"}

\* C13: when no step resolves an identity the resolver returns the default
\* shared tenant with no organization id and no locators, and raises nothing.
C13_DefaultNeverRaises ==
    (InFlight /\ NothingResolves(req)) =>
        /\ pc # "rejected"
        /\ resolved.kind = "return"
        /\ resolved.tenant_id = POSTGRES_DEFAULT_SCHEMA
        /\ resolved.org_id = None
        /\ resolved.db_url = None
        /\ resolved.vespa_url = None

\* The session-token store failed, nothing else identified the request, and
\* the handler ran under the default tenant.
C13_Witness ==
    /\ InFlight /\ NothingResolves(req)
    /\ req.token.state = "error"
    /\ pc = "done"
    /\ seen.tenant_id = POSTGRES_DEFAULT_SCHEMA /\ seen.org_id = None

\* C14: when the lookup fails because the lookup store is unavailable, the
\* request proceeds with the resolved tenant id and organization id and with
\* no database locator and no search locator.
C14_StoreUnavailableAbsorbed ==
    (/\ InFlight /\ TENANT_ISOLATION_MODE = "database"
     /\ WellFormed(req) /\ req.cookie = None
     /\ resolved.lookups # << >>
     /\ resolved.lookups[Len(resolved.lookups)].outcome = "unavailable")
    => /\ pc # "rejected"
       /\ Getters(ctx[ReqTask]).tenant_id = FirstMatch(req).tenant_id
       /\ Getters(ctx[ReqTask]).org_id = FirstMatch(req).org_id
       /\ Getters(ctx[ReqTask]).db_url = None
       /\ Getters(ctx[ReqTask]).vespa_url = None

\* C24: once the downstream handler has returned or raised and the middleware
\* with it, the tenant id, organization id, locators and isolation mode of the
\* request's execution context are back at their values from before the request.
C24_ContextReleasedAtCompletion ==
    pc \in {"done", "handler_raised"} =>
        Getters(ctx[ReqTask]) = ContextDefaults(MULTI_TENANT)

\* C29: in every tuple the resolver returns, the database locator and the
\* search locator are both null or both the URLs of the infrastructure record
\* of the organization id returned with them.
C29_LocatorsBelongToOrg ==
    (InFlight /\ resolved.kind = "return") =>
        \/ resolved.db_url = None /\ resolved.vespa_url = None
        \/ /\ resolved.org_id \in Orgs
           /\ store[resolved.org_id].present
           /\ resolved.db_url = LocatorsOf(resolved.org_id).db_url
           /\ resolved.vespa_url = LocatorsOf(resolved.org_id).vespa_url

\* The downstream handler of the request has been started.
HandlerStarted == pc \in {"done", "handler_raised"}

\* C36: the downstream handler starts only after the resolver has returned and
\* the tenant id, organization id, locators and isolation mode it resolved are
\* what the getters return; when resolution fails the handler is never started.
C36_ContextBeforeHandler ==
    /\ (MULTI_TENANT /\ HandlerStarted) =>
           /\ resolved.kind = "return" /\ resolved.step # "none"
           /\ seen = Args(resolved.tenant_id, resolved.org_id, resolved.db_url,
                          resolved.vespa_url, TENANT_ISOLATION_MODE)
    /\ (~MULTI_TENANT /\ HandlerStarted) => seen.tenant_id = POSTGRES_DEFAULT_SCHEMA
    /\ (InFlight /\ resolved.kind = "raise") => (pc = "rejected" /\ seen = NothingSeen)
    /\ pc \in {"idle", "call_next", "rejected"} => seen = NothingSeen

\* C36 witness: a handler ran and read a tenant id, an organization id, both
\* locators and 'database' mode, all as the resolver had returned them.
C36_Witness ==
    /\ MULTI_TENANT /\ HandlerStarted
    /\ \A f \in Fields : seen[f] # None
    /\ seen.isolation_mode = "database"
    /\ seen.org_id = resolved.org_id /\ seen.db_url = resolved.db_url
    /\ seen.vespa_url = resolved.vespa_url /\ seen.tenant_id = resolved.tenant_id

\* The organization id of the first signal that yields an identity: a valid
\* trusted header, the credential, the session token, the anonymous cookie
\* (the tenant id where the payload carries no organization id); None when no
\* signal yields one or the payload's tenant id is malformed.
SignalOrg(rq) ==
    IF rq.header # None /\ is_valid_schema_name(rq.header)
    THEN rq.header
    ELSE IF rq.auth # None
         THEN rq.auth
         ELSE LET p == IF rq.token.state = "data" THEN rq.token ELSE rq.anon
              IN  IF p.state = "data" /\ rq.token.state # "error"
                     /\ is_valid_schema_name(p.tenant_id)
                  THEN PayloadIdentity(p, "payload").org_id
                  ELSE None

\* C37: the resolver calls the Registry at most once per request, and exactly
\* when the deployment is in database mode and a signal yielded an identity,
\* with that identity's organization id (for a session that names no tenant,
\* the default schema name); in schema mode and when no signal yields an
\* identity, so that the default tenant is the fallback, it makes no call.
C37_OneLookupOfSignalOrg ==
    InFlight =>
        /\ Len(resolved.lookups) <= 1
        /\ resolved.lookups # << >> =>
               /\ TENANT_ISOLATION_MODE = "database"
               /\ resolved.lookups[1].org = SignalOrg(req)
        /\ (TENANT_ISOLATION_MODE = "database" /\ SignalOrg(req) # None) =>
               resolved.lookups # << >>
        /\ NothingResolves(req) => resolved.lookups = << >>

\* C37 witness: in database mode a request whose only signal is a session of
\* the default tenant made one Registry call, for the default schema name.
C37_Witness ==
    /\ InFlight /\ TENANT_ISOLATION_MODE = "database"
    /\ req.header = None /\ req.auth = None
    /\ req.token = Payload(POSTGRES_DEFAULT_SCHEMA, None)
    /\ Len(resolved.lookups) = 1
    /\ resolved.lookups[1].org = POSTGRES_DEFAULT_SCHEMA
    /\ resolved.lookups[1].outcome = "not_provisioned"

----------------------------------------------------------------------------
(* Client pool claims *)

\* The last pool operation (defined once one ran).
LastOp == ops[Len(ops)]

Entry(cs, url) == cs[IndexOf(cs, url)]

\* The last operation was a get_client that evicted: it evicted exactly one
\* client, one whose last-access time was the smallest.
EvictsLeastRecent ==
    (ops # << >> /\ LastOp.op = "get_client" /\ LastOp.full # << >>) =>
        /\ Cardinality(LastOp.evicted) = 1
        /\ \A u \in LastOp.evicted :
              \A j \in 1..Len(LastOp.full) :
                  Entry(LastOp.full, u).last_access <= LastOp.full[j].last_access

\* The last operation was a hit that returned the pooled client, and the pool
\* is at capacity, so that the next miss evicts.
HitAtCapacity ==
    /\ ops # << >> /\ LastOp.op = "get_client"
    /\ LastOp.hit /\ LastOp.create = "none"
    /\ Len(clients) = MAX_CLIENTS

\* C15 as stated: the eviction takes the client with the smallest last-access
\* time, and a client that was just hit is not the one the next eviction takes.
C15_HitSurvivesNextEviction ==
    /\ EvictsLeastRecent
    /\ HitAtCapacity => Oldest(clients) # LastOp.url

\* C15, amended: the eviction takes exactly one client, one with the smallest
\* last-access time; a hit sets the client's last access to the clock reading
\* of the call, which no other pooled client exceeds, so the client is not the
\* one the next eviction takes whenever another pooled client was last
\* accessed strictly earlier.
C15_LruEviction ==
    /\ EvictsLeastRecent
    /\ HitAtCapacity =>
          /\ \A j \in 1..Len(clients) :
                clients[j].last_access <= Entry(clients, LastOp.url).last_access
          /\ (\E j \in 1..Len(clients) :
                clients[j].last_access < Entry(clients, LastOp.url).last_access)
             => Oldest(clients) # LastOp.url

\* A miss on a full pool evicted a client that was not the first inserted: the
\* first one had been accessed again since.
C15_Witness ==
    /\ ops # << >> /\ LastOp.op = "get_client"
    /\ LastOp.full # << >>
    /\ LastOp.evicted = {LastOp.full[MAX_CLIENTS].vespa_url}
    /\ LastOp.full[1].last_access > LastOp.full[MAX_CLIENTS].last_access
    /\ LastOp.create = "ok"

\* C16: the pool never holds more than MAX_CLIENTS clients (one per key).
C16_PoolBound ==
    /\ Len(clients) <= MAX_CLIENTS
    /\ Cardinality(Urls(clients)) = Len(clients)

\* The pool is full right after an eviction, while another thread is waiting
\* for the lock.
C16_Witness ==
    /\ Len(clients) = MAX_CLIENTS
    /\ ops # << >> /\ LastOp.evicted # {}
    /\ \E th \in Tasks : threads[th].pc = "waiting"

\* C17: when a due health check on a hit fails, the client is removed and
\* closed, and if a new client can be constructed it is stored under the key
\* and returned; nothing is raised for the health failure.
C17_UnhealthyIsRecreated ==
    (/\ ops # << >> /\ LastOp.op = "get_client"
     /\ LastOp.hit /\ LastOp.check \in {"down", "error"})
    => /\ Cardinality(LastOp.dropped) = 1
       /\ LastOp.dropped \subseteq closed
       /\ LastOp.create # "none"
       /\ LastOp.create = "ok" =>
              /\ LastOp.result.kind = "return"
              /\ LastOp.result.client \notin LastOp.dropped
              /\ LastOp.url \in Urls(clients)
              /\ Entry(clients, LastOp.url).client = LastOp.result.client
              /\ Entry(clients, LastOp.url).is_healthy
              /\ Entry(clients, LastOp.url).last_health_check = NeverChecked

\* A health check that raised ("error") led to a recreation.
C17_Witness ==
    /\ ops # << >> /\ LastOp.op = "get_client"
    /\ LastOp.hit /\ LastOp.check = "error"
    /\ LastOp.create = "ok"
    /\ LastOp.result.kind = "return"

\* C18: every client removed from the pool was closed, no pooled client was
\* ever removed, and the client a get_client returns is not one removed before.
C18_RemovedIsClosedNeverReused ==
    /\ removed \subseteq closed
    /\ ClientIds(clients) \cap removed = {}
    /\ (ops # << >> /\ LastOp.op = "get_client" /\ LastOp.result.kind = "return") =>
          /\ LastOp.result.client \notin removed
          /\ LastOp.result.client \in ClientIds(clients)

\* Two clients were removed, and a get_client since built a new one.
C18_Witness ==
    /\ Cardinality(removed) >= 2
    /\ ops # << >> /\ LastOp.op = "get_client"
    /\ LastOp.create = "ok" /\ LastOp.dropped = {}

\* The client of a successful get_client is the pooled client of its target.
ReturnsPooledClient ==
    (ops # << >> /\ LastOp.op = "get_client" /\ LastOp.result.kind = "return") =>
        /\ LastOp.url \in Urls(clients)
        /\ Entry(clients, LastOp.url).client = LastOp.result.client

\* A thread inside a get_client call whose argument is still known.
InGetClient(th) ==
    threads[th].op = "get_client" /\ threads[th].pc \in {"waiting", "locked"}

\* C19 as stated: the target is the explicit argument, else the context's
\* search locator when it carries one, else the default endpoint.
C19_ContextLocatorWhenCarried ==
    /\ \A th \in Tasks :
          InGetClient(th) =>
              threads[th].url =
                  IF threads[th].arg # None
                  THEN threads[th].arg
                  ELSE IF get_current_vespa_url(ctx[th]) # None
                       THEN get_current_vespa_url(ctx[th])
                       ELSE VESPA_APP_CONTAINER_URL
    /\ ReturnsPooledClient

\* C19, amended: the context's search locator is used only when the context's
\* isolation mode is 'database'.
C19_ResolvesTarget ==
    /\ \A th \in Tasks :
          InGetClient(th) =>
              threads[th].url =
                  IF threads[th].arg # None
                  THEN threads[th].arg
                  ELSE IF /\ get_tenant_isolation_mode(ctx[th]) = "database"
                          /\ get_current_vespa_url(ctx[th]) # None
                       THEN get_current_vespa_url(ctx[th])
                       ELSE VESPA_APP_CONTAINER_URL
    /\ ReturnsPooledClient

\* A thread whose context carries a locator in schema mode got the client of
\* the default endpoint.
C19_Witness ==
    \E th \in Tasks :
        /\ threads[th].pc = "returned"
        /\ get_current_vespa_url(ctx[th]) # None
        /\ get_tenant_isolation_mode(ctx[th]) = "schema"
        /\ ops # << >> /\ LastOp.url = VESPA_APP_CONTAINER_URL
        /\ LastOp.result = threads[th].result

\* C20: when the construction of a client fails, get_client raises, the pool
\* has no entry for the requested endpoint, and the caller no longer holds the
\* lock.
C20_CreationFailurePropagates ==
    /\ (ops # << >> /\ LastOp.create = "failed") =>
          /\ LastOp.result.kind = "raise"
          /\ LastOp.url \notin Urls(clients)
    /\ \A th \in Tasks :
          threads[th].pc = "raised" =>
              /\ th \notin client_lock
              /\ threads[th].result.client = NoClient

\* Recreating an unhealthy client failed, and the other thread has taken the
\* lock since.
C20_Witness ==
    /\ ops # << >> /\ LastOp.create = "failed" /\ LastOp.hit
    /\ \E th \in Tasks :
          /\ threads[th].pc = "raised"
          /\ client_lock # {} /\ th \notin client_lock

\* The step is thread th running the locked body of operation op.
BodyStep(th, op) ==
    /\ threads[th].pc = "locked" /\ threads[th].op = op
    /\ threads'[th].pc # "locked"

\* What invalidate_client(url) must leave: the other entries as they were, in
\* their order, and the client of url, if there was one, closed.
OnlyClientRemoved(url) ==
    LET others(e) == e.vespa_url # url
    IN  /\ clients' = SelectSeq(clients, others)
        /\ url \notin Urls(clients')
        /\ IF url \in Urls(clients)
           THEN /\ closed' = closed \cup {Entry(clients, url).client}
                /\ removed' = removed \cup {Entry(clients, url).client}
           ELSE /\ clients' = clients
                /\ closed' = closed
                /\ removed' = removed

\* What a get_client for an endpoint with no pooled client must do: construct a
\* client object never handed out before and pool it under that endpoint, or
\* fail because the construction failed.
NewClientCreated(url) ==
    /\ ops'[1].create # "none"
    /\ ops'[1].create = "ok" =>
           /\ ops'[1].result = ClientReturned(nextClient)
           /\ nextClient \notin ClientIds(clients) \cup removed \cup closed
           /\ url \in Urls(clients')
           /\ Entry(clients', url).client = nextClient
    /\ ops'[1].create = "failed" => ops'[1].result.kind = "raise"

\* C28: invalidate_client(endpoint) removes and closes the pooled client of
\* that endpoint and leaves every other pooled client (object, last access,
\* health state) unchanged; it changes nothing when the endpoint has no client;
\* a get_client for an endpoint that has no pooled client, as after its
\* invalidation, creates a new client.
C28_InvalidateClientFrame ==
    [][\A th \in Tasks :
          /\ BodyStep(th, "invalidate_client") => OnlyClientRemoved(threads[th].url)
          /\ (BodyStep(th, "get_client") /\ threads[th].url \notin Urls(clients))
                 => NewClientCreated(threads[th].url)]_vars

\* C28 witness: the last operation invalidated an endpoint that had a client,
\* which is now closed and out of the pool, while another endpoint's client is
\* still pooled.
C28_Witness ==
    /\ ops # << >> /\ LastOp.op = "invalidate_client" /\ LastOp.hit
    /\ LastOp.url \notin Urls(clients)
    /\ Cardinality(LastOp.dropped) = 1 /\ LastOp.dropped \subseteq closed
    /\ clients # << >>
    /\ ClientIds(clients) \cap closed = {}

\* C31: a client get_client returned to a thread is not closed by the pool,
\* whatever the other thread does (eviction, unhealthy recreation,
\* invalidate_client, close_all), while the first thread is still using it.
C31_InUseNeverClosed ==
    \A th \in Tasks :
        threads[th].pc = "returned" => threads[th].result.client \notin closed

\* The pooled endpoints with the client object of each.
Pooled(cs) == {<<cs[i].vespa_url, cs[i].client>> : i \in 1..Len(cs)}

\* C38: a get_client that fails because the client construction raised leaves
\* the pool as it was: the same endpoints with the same client objects, none
\* of them closed by the call, also when the pool was at capacity or the
\* endpoint's previous client had just been found unhealthy.
C38_FailedCreateLeavesPool ==
    [][\A th \in Tasks :
          (BodyStep(th, "get_client") /\ threads'[th].pc = "raised") =>
              /\ Pooled(clients') = Pooled(clients)
              /\ closed' = closed]_vars

\* The time since the pooled client e was last health-checked, or, for a
\* client never checked, since it was created: such a client was never hit
\* (its first hit checks it), so its last_access still is its creation time.
SinceCheckOrCreation(e) ==
    IF e.last_health_check = NeverChecked
    THEN now - e.last_access
    ELSE now - e.last_health_check[1]

\* The step is a get_client of thread th that finds its endpoint pooled.
HitStep(th) == BodyStep(th, "get_client") /\ threads[th].url \in Urls(clients)

\* C34 as stated: on a hit a health check is issued only if more than
\* HEALTH_CHECK_INTERVAL has elapsed since the client's last check, or since
\* its creation when it was never checked.
C34_CheckOnlyAfterInterval ==
    [][\A th \in Tasks :
          (HitStep(th) /\ ops'[1].check # "none") =>
              SinceCheckOrCreation(Entry(clients, threads[th].url))
                  > HEALTH_CHECK_INTERVAL]_vars

\* C34 amended: on a hit a health check is issued exactly when the client was
\* never checked before (whatever its age) or more than HEALTH_CHECK_INTERVAL
\* has elapsed since its last check; any other hit sets last_access to the time
\* of the call, returns the pooled client, and changes nothing else.
C34_CheckWhenDue ==
    [][\A th \in Tasks :
          HitStep(th) =>
              LET e == Entry(clients, threads[th].url)
                  i == IndexOf(clients, threads[th].url)
              IN  /\ ops'[1].check # "none" <=>
                         \/ e.last_health_check = NeverChecked
                         \/ now - e.last_health_check[1] > HEALTH_CHECK_INTERVAL
                  /\ ops'[1].check = "none" =>
                         /\ clients' = [clients EXCEPT ![i].last_access = now]
                         /\ ops'[1].result = ClientReturned(e.client)
                         /\ closed' = closed /\ removed' = removed
                         /\ nextClient' = nextClient]_vars

\* C34 witness: after a clock advance, a hit on a client checked at the present
\* clock reading returned it without a health check.
C34_Witness ==
    /\ ops # << >> /\ LastOp.op = "get_client" /\ LastOp.hit /\ LastOp.check = "none"
    /\ now > 0
    /\ LastOp.url \in Urls(clients)
    /\ Entry(clients, LastOp.url).last_health_check = CheckedAt(now)
    /\ Entry(clients, LastOp.url).last_access = now
    /\ LastOp.result = ClientReturned(Entry(clients, LastOp.url).client)

----------------------------------------------------------------------------
(* Context Store claims *)

\* The value field f has for a task whose outstanding set_tenant_context calls
\* are st: the argument of the innermost call that set f, else the default.
RECURSIVE OwnValue(_, _, _)
OwnValue(st, f, default) ==
    IF st = << >>
    THEN default
    ELSE IF f \in FieldsSet(st[Len(st)].args)
         THEN st[Len(st)].args[f]
         ELSE OwnValue(SubSeq(st, 1, Len(st) - 1), f, default)

\* C2: at every point of every interleaving of two tasks, each getter of a task
\* returns the value that task itself set last (or the default when it set
\* none), never a value written by the other task.
C2_ContextIsolation ==
    \A t \in Tasks : \A f \in Fields :
        Getters(ctx[t])[f] = OwnValue(stack[t], f, ContextDefaults(MULTI_TENANT)[f])

\* C2 witness: both tasks hold a context at the same time, with different
\* tenant, organization, locators and isolation mode, and each reads its own.
C2_Witness ==
    /\ stack[1] # << >> /\ stack[2] # << >>
    /\ \A f \in Fields : Getters(ctx[1])[f] # Getters(ctx[2])[f]
    /\ \A t \in Tasks : \A f \in Fields : Getters(ctx[t])[f] # None
    /\ get_current_org_id(ctx[1]) = "org_7"
    /\ get_current_org_id(ctx[2]) = "acct_7"

\* C21: reset_tenant_context(tokens) leaves every getter returning what it
\* returned immediately before the set_tenant_context call that produced tokens;
\* with nested pairs reset innermost first, after the inner reset the getters
\* return the outer context's values, and after the outer reset the values from
\* before the outer set.
C21_ResetRestores ==
    \A t \in Tasks :
        undone[t] # << >> =>
            /\ Getters(ctx[t]) = undone[t][1].before
            /\ \A f \in Fields :
                   Getters(ctx[t])[f] =
                       OwnValue(stack[t], f, ContextDefaults(MULTI_TENANT)[f])

\* C21 witness: task 1 has just reset an inner call that had replaced the tenant,
\* the organization and both locators of an outer context still in force, and
\* reads the outer values again; task 2 has just reset its outermost call, which
\* had set 'database' mode, and reads the defaults again.
C21_Witness ==
    /\ undone[1] # << >> /\ undone[2] # << >>
    /\ Len(stack[1]) = 1
    /\ \A f \in Fields \ {"isolation_mode"} :
          /\ undone[1][1].args[f] # None
          /\ stack[1][1].args[f] # None
          /\ undone[1][1].args[f] # stack[1][1].args[f]
          /\ Getters(ctx[1])[f] = stack[1][1].args[f]
    /\ stack[2] = << >>
    /\ undone[2][1].args.isolation_mode = "database"
    /\ Getters(ctx[2]) = ContextDefaults(MULTI_TENANT)

\* The task's context is the one its latest set_tenant_context call made: the
\* call is outstanding and the task has not reset anything since.
InForce(t) == stack[t] # << >> /\ undone[t] = << >>

\* C22: from a set_tenant_context call until the next set or reset in the same
\* context, the getters return the values of that call: the tenant id and the
\* organization id it passed, its isolation mode, and for the database and
\* search locators the passed value, null when it carried none, even if an
\* enclosing context had set one; is_full_database_isolation() is true exactly
\* when the mode of the call is 'database'.
C22_GettersReturnCallValues ==
    \A t \in Tasks :
        InForce(t) =>
            LET args == stack[t][Len(stack[t])].args
            IN  /\ args.tenant_id # None => Getters(ctx[t]).tenant_id = args.tenant_id
                /\ args.org_id # None => get_current_org_id(ctx[t]) = args.org_id
                /\ get_current_db_url(ctx[t]) = args.db_url
                /\ get_current_vespa_url(ctx[t]) = args.vespa_url
                /\ get_tenant_isolation_mode(ctx[t]) = args.isolation_mode
                /\ is_full_database_isolation(ctx[t]) <=> args.isolation_mode = "database"

\* The tenant id the task's outstanding calls set, None when none of them did.
TenantIdSet(t) == OwnValue(stack[t], "tenant_id", None)

\* C23: get_current_tenant_id() in a context where no tenant id is set fails with
\* RuntimeError when multi-tenancy is enabled and returns the default schema name
\* when it is disabled; where a tenant id is set it returns that id.
C23_UnsetTenantIdIsFatal ==
    \A t \in Tasks :
        LET got == get_current_tenant_id(ctx[t], MULTI_TENANT)
        IN  IF TenantIdSet(t) = None
            THEN IF MULTI_TENANT
                 THEN got.kind = "raise" /\ got.error = "RuntimeError"
                 ELSE got = Return(POSTGRES_DEFAULT_SCHEMA)
            ELSE got = Return(TenantIdSet(t))

\* C23 witness: multi-tenancy is enabled; task 1 is inside a set_tenant_context
\* call that named no tenant and its read fails, while task 2 reads the tenant
\* id it set, which is not the default.
C23_Witness ==
    /\ MULTI_TENANT
    /\ stack[1] # << >> /\ TenantIdSet(1) = None
    /\ get_current_tenant_id(ctx[1], MULTI_TENANT).kind = "raise"
    /\ TenantIdSet(2) \notin {None, POSTGRES_DEFAULT_SCHEMA}
    /\ get_current_tenant_id(ctx[2], MULTI_TENANT) = Return(TenantIdSet(2))

----------------------------------------------------------------------------
(* Registry claims *)

\* The most recent recorded call and the one before it.
Last == calls[Len(calls)]

Before == calls[1]

RowSuspended(e) == e.row.present /\ e.row.row.status = "suspended"

RowUsable(e) == e.row.present /\ e.row.row.status # "suspended"

\* The call found a cache entry no older than the TTL.
LiveBefore(e) == e.hadEntry /\ e.age <= TENANT_CACHE_TTL_SECONDS

FailedWith(e, err) == e.result.kind = "raise" /\ e.result.error = err

Returned(e) == e.result.kind = "return"

\* C3 as stated: every call made while the store reports 'suspended' queries the
\* store and fails with TenantSuspendedError, whatever was looked up before.
C3_AlwaysQueriesWhenSuspended ==
    calls # << >> /\ RowSuspended(Last) =>
        Last.queried /\ FailedWith(Last, "TenantSuspendedError")

\* C3 amended: a call made while the store reports 'suspended' that does not find
\* a non-expired entry (bypass_cache, no entry, or an expired one) queries the
\* store and fails with TenantSuspendedError; and since a failed lookup caches
\* nothing, the call that follows a bypass_cache=false call that failed with
\* TenantSuspendedError queries and fails again while the store still reports
\* 'suspended', however short the time between them.
C3_SuspendedNeverCached ==
    calls # << >> /\ RowSuspended(Last) =>
        /\ (Last.bypass \/ ~LiveBefore(Last)) =>
               Last.queried /\ FailedWith(Last, "TenantSuspendedError")
        /\ (Len(calls) = 2 /\ ~Before.bypass /\ FailedWith(Before, "TenantSuspendedError")) =>
               Last.queried /\ FailedWith(Last, "TenantSuspendedError")

\* C3 witness: two calls at the same instant on a suspended organization, the
\* second one (not bypassing the cache) failing like the first.
C3_Witness ==
    /\ Len(calls) = 2
    /\ ~Before.bypass /\ FailedWith(Before, "TenantSuspendedError")
    /\ ~Last.bypass /\ RowSuspended(Last) /\ Last.at = Before.at
    /\ Last.queried /\ FailedWith(Last, "TenantSuspendedError")

\* C4: of two consecutive bypass_cache=false calls for an organization whose
\* record is not suspended, the first reaching the store and the second made
\* within the TTL of the first with no invalidate_cache in between, only the
\* first queries the store, and the second returns the record of the first.
C4_OneQueryWithinTtl ==
    (/\ Len(calls) = 2
     /\ ~Before.bypass /\ Before.queried /\ Returned(Before)
     /\ ~Last.bypass
     /\ Last.at - Before.at <= TENANT_CACHE_TTL_SECONDS
     /\ ~Last.afterInvalidate)
    => (~Last.queried /\ Last.result = Before.result)

\* C4 witness: the second call comes exactly TTL seconds after the first, the
\* store row having changed in between, and still returns the first record.
C4_Witness ==
    /\ Len(calls) = 2
    /\ ~Before.bypass /\ Before.queried /\ Returned(Before)
    /\ ~Last.bypass /\ ~Last.afterInvalidate
    /\ Last.at - Before.at = TENANT_CACHE_TTL_SECONDS
    /\ RowUsable(Last) /\ Last.row.row.status # Before.result.value.status
    /\ ~Last.queried /\ Last.result = Before.result

\* C5: a call that reaches the store is classified by the row alone: no row ->
\* TenantNotProvisionedError carrying the organization id; status 'suspended' ->
\* TenantSuspendedError; any other status, 'provisioning' included -> the record.
C5_ClassifiedByRow ==
    (calls # << >> /\ Last.queried) =>
        /\ ~Last.row.present =>
               Last.result = Raise("TenantNotProvisionedError", Watched)
        /\ RowSuspended(Last) => FailedWith(Last, "TenantSuspendedError")
        /\ RowUsable(Last) =>
               Last.result = Return(TenantInfrastructure(Last.row.row))

\* C5 witness: a store query on a 'provisioning' row returned the record.
C5_Witness ==
    /\ calls # << >> /\ Last.queried
    /\ Last.row.present /\ Last.row.row.status = "provisioning"
    /\ Returned(Last) /\ Last.result.value.status = "provisioning"

\* C6: an entry is served only while its age is at most the TTL; a call that
\* finds an older entry queries the store, and afterwards the cache holds the
\* freshly read record stamped with the time of this call, or, if the query
\* failed, no entry at all (the expired one is gone either way).
C6_TtlExpiry ==
    calls # << >> =>
        /\ ~Last.queried => (~Last.bypass /\ LiveBefore(Last))
        /\ (~Last.bypass /\ Last.hadEntry /\ ~LiveBefore(Last)) =>
               /\ Last.queried
               /\ Returned(Last) =>
                      /\ Last.cached.present
                      /\ Last.cached.entry =
                            [infrastructure |-> TenantInfrastructure(Last.row.row),
                             cached_at      |-> Last.at]
               /\ ~Returned(Last) => ~Last.cached.present

\* C6 witness: an entry one second older than the TTL was replaced by a fresh one.
C6_Witness ==
    /\ calls # << >> /\ ~Last.bypass
    /\ Last.hadEntry /\ Last.age = TENANT_CACHE_TTL_SECONDS + 1
    /\ Last.queried /\ Returned(Last)
    /\ Last.cached.present /\ Last.cached.entry.cached_at = Last.at

\* What invalidate_cache(org) must leave: nothing when org is None, else every
\* entry but that of org, each with its record and cached_at untouched.
OnlyEntryRemoved(org) ==
    IF org = None
    THEN cache' = << >>
    ELSE /\ DOMAIN cache' = DOMAIN cache \ {org}
         /\ \A o \in DOMAIN cache' : cache'[o] = cache[o]
         /\ org \notin DOMAIN cache => cache' = cache

\* C26: invalidate_cache(org) removes the entry of org and leaves every other
\* organization's entry unchanged, invalidate_cache(None) removes all entries,
\* and invalidating an organization that has no entry changes nothing; the
\* first lookup of an organization after its invalidation queries the store.
C26_InvalidateFrame ==
    /\ [][\A org \in Orgs \cup {None} : RegInvalidate(org) => OnlyEntryRemoved(org)]_vars
    /\ [](calls # << >> /\ Last.afterInvalidate => Last.queried)

\* C26 witness: a lookup returned the record, the organization was invalidated,
\* and a bypass_cache=false lookup at the same instant queried the store again,
\* while the other organization's entry, cached earlier, is still in the cache.
C26_Witness ==
    /\ Len(calls) = 2
    /\ Returned(Before) /\ Last.at = Before.at
    /\ ~Last.bypass /\ Last.afterInvalidate /\ Last.queried
    /\ "org_7" \in DOMAIN cache /\ cache["org_7"].cached_at < Last.at

\* C25: when a call failed with TenantSuspendedError and the row has since
\* changed to a status other than 'suspended', the next call (bypass_cache=false,
\* no invalidate_cache in between, at any later time) queries the store and
\* returns the record.
C25_UnsuspensionSeenAtOnce ==
    (/\ Len(calls) = 2
     /\ FailedWith(Before, "TenantSuspendedError")
     /\ ~Last.bypass /\ ~Last.afterInvalidate
     /\ RowUsable(Last))
    => (Last.queried /\ Last.result = Return(TenantInfrastructure(Last.row.row)))

\* C27: a bypass_cache=true call always queries the store, even over a
\* non-expired entry, and on success leaves in the cache the record it read,
\* stamped with the time of the call; a bypass_cache=false call that finds a
\* non-expired entry returns it without querying and leaves it as it was.
C27_BypassAlwaysQueries ==
    calls # << >> =>
        /\ Last.bypass =>
               /\ Last.queried
               /\ Returned(Last) =>
                      /\ Last.result = Return(TenantInfrastructure(Last.row.row))
                      /\ Last.cached.present
                      /\ Last.cached.entry =
                            [infrastructure |-> TenantInfrastructure(Last.row.row),
                             cached_at      |-> Last.at]
        /\ (~Last.bypass /\ LiveBefore(Last)) =>
               /\ ~Last.queried
               /\ Last.cached.present
               /\ Last.result = Return(Last.cached.entry.infrastructure)
               /\ Last.cached.entry.cached_at = Last.at - Last.age

\* C27 witness: a bypass_cache=true call made over an entry cached TTL seconds
\* earlier, hence not expired, read a record with another status than the call
\* before had returned and put it in the cache with the new time.
C27_Witness ==
    /\ Len(calls) = 2
    /\ Returned(Before)
    /\ Last.bypass /\ Last.hadEntry /\ Last.age = TENANT_CACHE_TTL_SECONDS
    /\ Last.queried /\ Returned(Last)
    /\ Last.result.value.status # Before.result.value.status
    /\ Last.cached.entry.cached_at = Last.at
    /\ Last.cached.entry.infrastructure = Last.result.value

\* The row is one that makes a store query fail with err.
RowFails(e, err) ==
    \/ err = "TenantSuspendedError" /\ RowSuspended(e)
    \/ err = "TenantNotProvisionedError" /\ ~e.row.present

\* C30: a bypass_cache=true call that fails with TenantSuspendedError or
\* TenantNotProvisionedError leaves no cache entry for the organization, and a
\* bypass_cache=false call that follows it, the store still answering the same,
\* fails with the same error.
C30_FailedBypassLeavesNoEntry ==
    \A err \in {"TenantSuspendedError", "TenantNotProvisionedError"} :
        /\ (calls # << >> /\ Last.bypass /\ FailedWith(Last, err)) => ~Last.cached.present
        /\ (/\ Len(calls) = 2
            /\ Before.bypass /\ FailedWith(Before, err)
            /\ ~Last.bypass /\ RowFails(Last, err))
           => FailedWith(Last, err)

\* C33: in every reachable state no cache entry holds a record whose status is
\* 'suspended', and no entry exists for an organization whose most recent store
\* query returned no row.
C33_NoSuspendedNoAbsentCached ==
    /\ \A o \in DOMAIN cache : cache[o].infrastructure.status # "suspended"
    /\ (calls # << >> /\ Last.queried /\ ~Last.row.present) => Watched \notin DOMAIN cache

----------------------------------------------------------------------------
(* Notification hook claims *)

\* The events handed to the executor from clock reading t on, for less than a
\* minute.
SubmittedFrom(t) ==
    {j \in 1..Len(submitted) :
        submitted[j].at >= t /\ submitted[j].at < t + RATE_WINDOW_SECONDS}

\* The same, going by the time the rate limiter allowed the event.
AllowedFrom(t) ==
    {j \in 1..Len(submitted) :
        submitted[j].allowed_at >= t /\ submitted[j].allowed_at < t + RATE_WINDOW_SECONDS}

\* No sliding minute holds more than the limit of events, each counted at the
\* time the rate limiter allowed it rather than at its submission.
AllowedWithinLimit ==
    \A i \in 1..Len(submitted) :
        Cardinality(AllowedFrom(submitted[i].allowed_at)) <= POSEIDON_MAX_EVENTS_PER_MINUTE

\* C40: whatever the interleaving of the notify_* calls of the threads, no
\* sliding 60-second window holds more than POSEIDON_MAX_EVENTS_PER_MINUTE
\* submitted events, and a refused call has returned without submitting.
C40_WindowNeverExceeded ==
    /\ \A i \in 1..Len(submitted) :
          Cardinality(SubmittedFrom(submitted[i].at)) <= POSEIDON_MAX_EVENTS_PER_MINUTE
    /\ \A th \in Tasks :
          notifiers[th].outcome = "limited" => notifiers[th].pc = "idle"

----------------------------------------------------------------------------
(* Singleton claims *)

\* C39: every caller of TenantRegistry() or TenantVespaClientPool() gets the
\* one instance of the class, whatever the interleaving of the first
\* constructions, and the instance's map is never replaced by an empty one
\* after an entry was added to it.
C39_InitialisedOnce ==
    /\ \A th \in Tasks :
          builders[th].pc = "have" =>
              /\ builders[th].self = instance[builders[th].cls]
              /\ Len(objects[builders[th].cls]) = 1
    /\ \A cls \in Classes : replaced[cls] = {}

----------------------------------------------------------------------------
(* Concurrent Registry claims *)

\* C32: once an invalidate_cache has returned, the cache holds no record of
\* the organization that was read from the store before that invalidation
\* began, and a lookup begun after it returned gets no such record either.
C32_NoRecordFromBeforeInvalidate ==
    /\ Watched \in DOMAIN cache => entry_epoch[Watched] >= inv_returned
    /\ \A th \in Tasks :
          callers[th].pc = "returned" => callers[th].read_epoch >= callers[th].began_after

\* Thread th is waiting for the pool's _client_lock.
WaitsClientLock(th) == threads[th].pc = "waiting"

\* Thread th is waiting for the Registry's _cache_lock.
WaitsCacheLock(th) == callers[th].pc \in CacheLockWaits

\* C35: no thread holds the Registry's cache lock and the pool's client lock
\* at the same time, none waits for one of them while it holds the other, and
\* whoever holds one is inside the locked block that releases it, so that no
\* state is a deadlock between Registry and pool operations.
C35_LocksNeverNested ==
    \A th \in Tasks :
        /\ ~(th \in cache_lock /\ th \in client_lock)
        /\ WaitsClientLock(th) => th \notin cache_lock
        /\ WaitsCacheLock(th) => th \notin client_lock
        /\ th \in cache_lock => callers[th].pc \in CacheLockHolds
        /\ th \in client_lock => threads[th].pc = "locked"

\* C35 witness: one thread, which got a client from the pool before, holds the
\* cache lock inside a Registry call while the other holds the client lock
\* inside a pool call, with a record in the cache.
C35_Witness ==
    \E t1, t2 \in Tasks :
        /\ t1 # t2
        /\ cache_lock = {t1} /\ callers[t1].pc \in CacheLockHolds
        /\ client_lock = {t2} /\ threads[t2].pc = "locked"
        /\ threads[t1].pc = "returned"
        /\ Watched \in DOMAIN cache

====
